---- MODULE Spec2Model ----
(***************************************************************************)
(* Process lifecycle supervisor of db-datadir-switcher: the Start, Stop    *)
(* and Switch operations of core/mariadb.go and the CLI / tray / GUI entry *)
(* points that call them, run by concurrent callers against an operating   *)
(* system that holds the target processes, the TCP ports, the profile      *)
(* files and the data directories.                                         *)
(***************************************************************************)
EXTENDS Naturals, FiniteSets, Sequences

\* ---------------------------------------------------------------- bounds
\* Cap on the process ids the operating system hands out (pids 1..MaxPid).
MaxPid == 3

\* ------------------------------------------------------- program constants
\* maxRetries of the verification loop in StartMariaDBWithConfig.
maxRetries == 10

\* ------------------------------------------------------------ the catalog
\* The concurrent callers: goroutines started by the tray menu, the config
\* card or the quick-actions card, or a CLI invocation.  Each makes one
\* request.
Callers == {"a", "b"}

\* Two profiles of the catalog; both declare port=3306 (the default port).
Profiles == {"dev", "prod"}

DirStates == {"absent", "empty", "populated"}

\* Config.DataDir of each profile of the catalog.
DataDirOf == [p \in Profiles |-> IF p = "dev" THEN "/data/dev" ELSE "/data/prod"]

VARIABLES
  procs,            \* OS process table rows of the target executable
  nextPid,          \* next process id the OS hands out
  foreignPort,      \* ports bound by a process that is not the target
  dataDir,          \* state of each profile's data directory on disk
  cfgExists,        \* does the profile file exist on disk
  LastUsedConfig,   \* AppConfig.LastUsedConfig
  CurrentStatus,    \* core.CurrentStatus
  SavedCredentials, \* core.SavedCredentials # nil
  call,             \* per caller: position in its operation, locals, history
  portDecl,         \* Config.Port of each profile, as parsed from its file
  query,            \* a call of GetMariaDBStatus: position and status so far
  parse,            \* a call of ParseConfigFile: the file and the result
  lookup,           \* a call of FindConfigByPath: the path and the result
  tool,             \* a call that shells out to an external tool
  spawn,            \* a spawn and the listing of its command line
  chain,            \* a call of getCurrentPort: what it can see, and the port
  start,            \* one call of StartMariaDBWithConfig, check by check
  scan,             \* the configuration directory, the catalog and a rescan in progress
  readers,          \* status queries running side by side, and the process table they list
  snap              \* the last known status while goroutines copy into it and read from it

vars == <<procs, nextPid, foreignPort, dataDir, cfgExists, LastUsedConfig,
          CurrentStatus, SavedCredentials, call, portDecl, query, parse,
          lookup, tool, spawn, chain,
          start,
          scan,
          readers,
          snap>>

\* The calls of the pure helpers, which the lifecycle never touches.
pure == <<parse, lookup, tool, spawn, chain, start, scan, readers, snap>>

\* What an operation of the supervisor never writes.
env == <<foreignPort, cfgExists, portDecl, query, pure>>

\* The state of the lifecycle, which the pure helpers never touch.
lifecycle == <<procs, nextPid, foreignPort, dataDir, cfgExists, LastUsedConfig,
               CurrentStatus, SavedCredentials, call, portDecl, query>>

\* Config.Port of the catalog's profiles.
PortOf == portDecl

Ports == {PortOf[p] : p \in Profiles}

\* --------------------------------------------------------- status queries
\* FindProcessWithCmdLine: a row of the process listing whose command
\* contains the process name; the first such row (lowest pid) is returned.
FindProcessWithCmdLine ==
  IF procs = {} THEN [found |-> FALSE, pid |-> 0, cfg |-> "none"]
  ELSE LET p == CHOOSE q \in procs : \A o \in procs : q.pid <= o.pid
       IN  [found |-> TRUE, pid |-> p.pid, cfg |-> p.cfg]

IsMariaDBRunning == FindProcessWithCmdLine.found

\* GetMariaDBStatus: the all-unset status when not running, else the pid and
\* the profile recovered from --defaults-file of the row found.
GetMariaDBStatus ==
  IF ~IsMariaDBRunning
  THEN [IsRunning |-> FALSE, ProcessID |-> 0, ConfigName |-> "none"]
  ELSE [IsRunning |-> TRUE, ProcessID |-> FindProcessWithCmdLine.pid,
        ConfigName |-> FindProcessWithCmdLine.cfg]

\* A port is bound when some process holds a listening socket on it.
PortBound(port) ==
  \/ port \in foreignPort
  \/ \E p \in procs : p.state \in {"listening", "stopping"} /\ PortOf[p.cfg] = port

\* IsPortAvailable: net.Listen on the port succeeds.
IsPortAvailable(port) == ~PortBound(port)

\* IsPortListening: net.DialTimeout to the port succeeds.
IsPortListening(port) ==
  \/ port \in foreignPort
  \/ \E p \in procs : p.state = "listening" /\ PortOf[p.cfg] = port

\* File.Readdirnames(1) on an open directory: nil when an entry was read,
\* io.EOF at the end of a directory (the directory is empty).
Readdirnames(state) == IF state \in {"populated", "incomplete"} THEN "nil" ELSE "EOF"

\* IsDirEmpty answering true when an entry was read.
IsDirEmpty_Inverted(state) == Readdirnames(state) = "nil"

\* IsDirEmpty: `if err == os.ErrNotExist || err == nil { return err != nil }`
\* and (false, err) for every other error.
IsDirEmpty(state) ==
  LET err == Readdirnames(state)
  IN  IF err = "ErrNotExist" \/ err = "nil" THEN err # "nil" ELSE FALSE

\* ------------------------------------------------------------ caller state
\* pc, op, cfg, i are the position and the locals of the operation; the
\* other fields are history: the result returned (the kind of the error
\* message), the side effects performed by this call, and what the operating
\* system showed at the moments the operation looked at it.
\*   reqCfg    profile of the running server when the request was made
\*   reqPid    its process id (0 when none was running)
\*   seen      what the call of StartMariaDBWithConfig found on entry
\*   sawBoth   some poll saw the process running and the port accepting
\*   afterStop status at the moment Stop returned nil after a shutdown
\*   denied    the server answered the shutdown command with "Access denied"
Idle == [pc |-> "idle", op |-> "none", cfg |-> "none", i |-> 0,
         result |-> "none", effects |-> {}, reqCfg |-> "none",
         seen |-> "none", sawBoth |-> FALSE, afterStop |-> "none",
         denied |-> FALSE, reqPid |-> 0]

InFlight(c) == call[c].pc \notin {"idle", "done"}

Begin(op, cfg) ==
  [Idle EXCEPT !.op = op, !.cfg = cfg, !.reqCfg = FindProcessWithCmdLine.cfg,
               !.reqPid = FindProcessWithCmdLine.pid]

\* The operation returns to its caller with a result.
Done(r, res) == [r EXCEPT !.pc = "done", !.result = res]

\* Another profile's server is confirmed running (accepting connections) on
\* the port that profile cfg declares.
PortRival(cfg) ==
  \E p \in procs : p.state = "listening" /\ p.cfg # cfg /\ PortOf[p.cfg] = PortOf[cfg]

\* MariaDBStatus{}: the status with every field unset.
MariaDBStatus ==
  [IsRunning |-> FALSE, ConfigFile |-> "", ConfigName |-> "", DataPath |-> "",
   ProcessID |-> 0, Port |-> "", Version |-> ""]

\* No status query is being made.
QueryIdle == [pc |-> "idle", status |-> MariaDBStatus]

\* MariaDBConfig{}: the parsed fields of a profile, all unset.
MariaDBConfig ==
  [DataDir |-> <<>>, Port |-> <<>>, Description |-> <<>>, Exists |-> FALSE]

\* No file is being parsed, no path looked up, no tool run.
ParseIdle ==
  [pc |-> "idle", present |-> TRUE, readable |-> TRUE, text |-> <<>>,
   config |-> MariaDBConfig]

LookupIdle ==
  [pc |-> "idle", path |-> [abs |-> TRUE, segs |-> <<>>], found |-> "none"]

ToolIdle ==
  [pc |-> "idle", op |-> "none", step |-> 0, hung |-> FALSE, outcomes |-> <<>>]

\* Nothing is spawned.
SpawnIdle == [pc |-> "idle", path |-> <<>>, cmdLine |-> <<>>, configFile |-> <<>>]

\* No port is being resolved.
ChainIdle ==
  [pc |-> "idle", cmdPort |-> "", dbPort |-> "", pid |-> <<>>, netstat |-> <<>>,
   accepting |-> {}, port |-> "", consulted |-> <<>>]

\* No call of StartMariaDBWithConfig is being followed.  The fields up to
\* portFree are what the call will find: the status at entry and at the
\* re-check, the binary directory and the lookups, the profile file, the
\* data directory, the outcome of MkdirAll and of the two initialization
\* methods, and the bind probe.  steps, effects, examined (the state of the
\* directory handed to IsDirEmpty), isEmpty, dirErr (what it returned),
\* mysqldPath and result record what the call did.
StartIdle ==
  [pc |-> "idle", running1 |-> FALSE,
   bin |-> [dir |-> "present", primary |-> TRUE, alternate |-> FALSE, which |-> FALSE],
   cfgExists |-> TRUE, dir |-> "populated", mkdirOK |-> TRUE, ok1 |-> TRUE,
   ok2 |-> TRUE, running2 |-> FALSE, portFree |-> TRUE,
   steps |-> <<>>, effects |-> {}, examined |-> "unset", isEmpty |-> FALSE,
   dirErr |-> "unset",
   mysqldPath |-> "", result |-> "none"]

\* The catalog at construction: an empty configuration directory has been
\* scanned, no server is running and none is known.  files is the directory,
\* matches the files still to be appended by the rescan in progress, listed
\* whether the catalog held the served profile when that rescan began, fresh
\* whether the last rescan is more recent than the last change of the
\* directory; running is the --defaults-file of the running server;
\* seenName is the name a status query found in the catalog, seenAt,
\* seenListed and seenFile the values of pc and listed and the presence of
\* the served file when it looked; atReturn is the file of the server
\* running when the last Scan returned.
ScanIdle ==
  [pc |-> "idle", files |-> {}, matches |-> <<>>, AvailableConfigs |-> <<>>,
   listed |-> FALSE, fresh |-> TRUE, running |-> <<>>,
   CurrentStatus |-> [IsRunning |-> FALSE, ConfigFile |-> <<>>],
   seenName |-> <<>>, seenAt |-> "never", seenListed |-> FALSE,
   seenFile |-> FALSE, atReturn |-> <<>>]

\* The goroutines that call GetMariaDBStatus (the refresh ticker and a
\* handler of the window).
Queriers == {"ticker", "window"}

\* No status query has begun and the process table has no row of the server
\* executable.  Of a query: its position, the status it is filling in, and
\* the process id of its `mysqld --version` child.
ReadersIdle ==
  [table |-> {},
   q |-> [r \in Queriers |->
            [pc |-> "idle", helper |-> 0,
             status |-> [IsRunning |-> FALSE, ProcessID |-> 0, ConfigFile |-> ""]]]]

\* The fields of MariaDBStatus that the readers look at.
StatusFields == {"IsRunning", "ProcessID", "ConfigFile"}

\* The results a status query can return: not running, and a server running
\* with one or the other profile.
StatusResults ==
  {[IsRunning |-> FALSE, ProcessID |-> 0, ConfigFile |-> ""],
   [IsRunning |-> TRUE, ProcessID |-> 7, ConfigFile |-> "b.ini"],
   [IsRunning |-> TRUE, ProcessID |-> 9, ConfigFile |-> "a.cnf"]}

\* The goroutines that assign core.CurrentStatus: the refresh ticker and a
\* Start begun from the window.
Writers == {"ticker", "start"}

\* CurrentStatus is the zero value, no assignment is under way (left is the
\* set of fields an assignment has still to store) and the reader has read
\* no field (read is the set of fields it has read, seen their values).
SnapIdle ==
  [CurrentStatus |-> [IsRunning |-> FALSE, ProcessID |-> 0, ConfigFile |-> ""],
   w |-> [g \in Writers |->
            [value |-> [IsRunning |-> FALSE, ProcessID |-> 0, ConfigFile |-> ""],
             left |-> {}]],
   read |-> {},
   seen |-> [IsRunning |-> FALSE, ProcessID |-> 0, ConfigFile |-> ""]]

\* The lifecycle at rest: no server, no request, both profiles in place.
LifecycleQuiet ==
  /\ procs = {}
  /\ nextPid = 1
  /\ foreignPort = {}
  /\ cfgExists = [p \in Profiles |-> TRUE]
  /\ dataDir = [p \in Profiles |-> "populated"]
  /\ LastUsedConfig = "none"
  /\ CurrentStatus = GetMariaDBStatus
  /\ SavedCredentials = FALSE
  /\ call = [c \in Callers |-> Idle]
  /\ portDecl = [p \in Profiles |-> "3306"]
  /\ query = QueryIdle

\* The state after construction: no request is in flight; a server started
\* earlier with the "prod" profile may be running; the "dev" profile may be
\* new (its file missing, its data directory missing or empty).
Init ==
  /\ procs \in {{}, {[pid |-> 1, cfg |-> "prod", state |-> "listening"]}}
  /\ nextPid = Cardinality(procs) + 1
  /\ foreignPort = {}
  /\ cfgExists \in {e \in [Profiles -> BOOLEAN] : e["prod"]}
  /\ dataDir \in {d \in [Profiles -> DirStates] :
                    /\ d["prod"] = "populated"
                    /\ ~cfgExists["dev"] => d["dev"] = "absent"}
  /\ LastUsedConfig = (IF procs = {} THEN "none" ELSE "prod")
  /\ CurrentStatus = GetMariaDBStatus
  /\ SavedCredentials = FALSE
  /\ call = [c \in Callers |-> Idle]
  /\ portDecl = [p \in Profiles |-> "3306"]
  /\ query = QueryIdle
  /\ parse = ParseIdle
  /\ lookup = LookupIdle
  /\ tool = ToolIdle
  /\ spawn = SpawnIdle
  /\ chain = ChainIdle
  /\ start = StartIdle
  /\ scan = ScanIdle
  /\ readers = ReadersIdle
  /\ snap = SnapIdle

\* ------------------------------------------------------------------ Start
\* What the status check shows when StartMariaDBWithConfig is entered.
SeenRunning(r) == IF PortRival(r.cfg) THEN "rival" ELSE "running"

\* StartCheck without its running check (the check left to the re-check).
StartCheck_NoRunningCheck(r) ==
  IF ~cfgExists[r.cfg]
  THEN Done([r EXCEPT !.seen = IF IsMariaDBRunning THEN SeenRunning(r) ELSE "stopped"],
            "ConfigNotFound")
  ELSE [r EXCEPT !.pc = "prepare",
                 !.seen = IF IsMariaDBRunning THEN SeenRunning(r) ELSE dataDir[r.cfg]]

\* StartCheck with the port probe made first.
StartCheck_PortFirst(r) ==
  IF cfgExists[r.cfg] /\ ~IsPortAvailable(PortOf[r.cfg])
  THEN Done([r EXCEPT !.seen = IF IsMariaDBRunning THEN SeenRunning(r) ELSE "stopped"],
            "PortOccupied")
  ELSE IF IsMariaDBRunning
  THEN Done([r EXCEPT !.seen = SeenRunning(r)], "AlreadyRunning")
  ELSE IF ~cfgExists[r.cfg]
       THEN Done([r EXCEPT !.seen = "stopped"], "ConfigNotFound")
       ELSE [r EXCEPT !.pc = "prepare", !.seen = dataDir[r.cfg]]

\* StartMariaDBWithConfig, up to the parsed profile: the first running check
\* and the existence check of the profile file.  (The binary directory is
\* taken as configured and present.)
StartCheck(r) ==
  IF IsMariaDBRunning
  THEN Done([r EXCEPT !.seen = SeenRunning(r)], "AlreadyRunning")
  ELSE IF ~cfgExists[r.cfg]
       THEN Done([r EXCEPT !.seen = "stopped"], "ConfigNotFound")
       ELSE [r EXCEPT !.pc = "prepare", !.seen = dataDir[r.cfg]]

\* A Start request: the tray submenu, the config card's Start button and the
\* quick-actions dropdown start a goroutine that calls
\* StartMariaDBWithConfig; CLI.Start looks the profile up, refuses when
\* IsMariaDBRunning, and calls it too.
Start(c, cfg) ==
  /\ call[c].pc = "idle"
  /\ call' = [call EXCEPT ![c] = StartCheck(Begin("Start", cfg))]
  /\ UNCHANGED <<procs, nextPid, dataDir, LastUsedConfig, CurrentStatus,
                 SavedCredentials, env>>

\* The call of StartMariaDBWithConfig that CLI.Switch makes after CLI.Stop.
StartEnter(c) ==
  /\ call[c].pc = "enter"
  /\ call' = [call EXCEPT ![c] = StartCheck(call[c])]
  /\ UNCHANGED <<procs, nextPid, dataDir, LastUsedConfig, CurrentStatus,
                 SavedCredentials, env>>

\* Validate and prepare the data directory: create it when absent, then
\* initialize it when IsDirEmpty says so (InitializeDataDir, and on failure
\* InitializeDataDirAlternative), else ValidateDataDirectory (warning only).
StartPrepare(c) ==
  LET r       == call[c]
      created == dataDir[r.cfg] = "absent"
      d1      == IF created THEN "empty" ELSE dataDir[r.cfg]
      r1      == IF created THEN [r EXCEPT !.effects = @ \cup {"mkdir"}] ELSE r
  IN
  /\ r.pc = "prepare"
  /\ IF IsDirEmpty(d1)
     THEN \E ok1 \in BOOLEAN, ok2 \in BOOLEAN :
            LET r2 == [r1 EXCEPT !.effects = @ \cup {"init"}]
            IN  IF ok1 \/ ok2
                THEN /\ dataDir' = [dataDir EXCEPT ![r.cfg] = "populated"]
                     /\ call' = [call EXCEPT ![c] = [r2 EXCEPT !.pc = "recheck"]]
                ELSE /\ dataDir' = [dataDir EXCEPT ![r.cfg] = d1]
                     /\ call' = [call EXCEPT ![c] = Done(r2, "DataDirInitFailed")]
     ELSE /\ dataDir' = [dataDir EXCEPT ![r.cfg] = d1]
          /\ call' = [call EXCEPT ![c] = [r1 EXCEPT !.pc = "recheck"]]
  /\ UNCHANGED <<procs, nextPid, LastUsedConfig, CurrentStatus,
                 SavedCredentials, env>>

\* The second running check and the bind probe of the profile's port.
StartRecheck(c) ==
  LET r == call[c] IN
  /\ r.pc = "recheck"
  /\ call' = [call EXCEPT ![c] =
                IF IsMariaDBRunning THEN Done(r, "AlreadyRunning")
                ELSE IF ~IsPortAvailable(PortOf[r.cfg]) THEN Done(r, "PortOccupied")
                ELSE [r EXCEPT !.pc = "spawn"]]
  /\ UNCHANGED <<procs, nextPid, dataDir, LastUsedConfig, CurrentStatus,
                 SavedCredentials, env>>

\* ValidateConfigFile (non-fatal), cmd.Start and Process.Release: a new
\* detached process of the target executable with --defaults-file=<profile>.
StartSpawn(c) ==
  LET r == call[c] IN
  /\ r.pc = "spawn"
  /\ nextPid <= MaxPid
  /\ procs' = procs \cup {[pid |-> nextPid, cfg |-> r.cfg, state |-> "starting"]}
  /\ nextPid' = nextPid + 1
  /\ call' = [call EXCEPT ![c] =
                [r EXCEPT !.pc = "poll", !.i = 0, !.effects = @ \cup {"spawn"}]]
  /\ UNCHANGED <<dataDir, LastUsedConfig, CurrentStatus, SavedCredentials, env>>

\* StartPoll giving up one iteration later.
StartPoll_OneMore(c) ==
  LET r == call[c] IN
  /\ r.pc = "poll"
  /\ call' = [call EXCEPT ![c] =
                IF IsMariaDBRunning /\ IsPortListening(PortOf[r.cfg])
                THEN [r EXCEPT !.pc = "final", !.i = 0, !.sawBoth = TRUE]
                ELSE IF r.i >= maxRetries
                     THEN [r EXCEPT !.pc = "final", !.i = 0]
                     ELSE [r EXCEPT !.i = @ + 1]]
  /\ UNCHANGED <<procs, nextPid, dataDir, LastUsedConfig, CurrentStatus,
                 SavedCredentials, env>>

\* One iteration of the verification loop.
StartPoll(c) ==
  LET r == call[c] IN
  /\ r.pc = "poll"
  /\ call' = [call EXCEPT ![c] =
                IF IsMariaDBRunning /\ IsPortListening(PortOf[r.cfg])
                THEN [r EXCEPT !.pc = "final", !.i = 0, !.sawBoth = TRUE]
                ELSE IF r.i + 1 >= maxRetries
                     THEN [r EXCEPT !.pc = "final", !.i = 0]
                     ELSE [r EXCEPT !.i = @ + 1]]
  /\ UNCHANGED <<procs, nextPid, dataDir, LastUsedConfig, CurrentStatus,
                 SavedCredentials, env>>

\* StartFinal recording the last used profile on failure as well.
StartFinal_RecordOnFailure(c) ==
  LET r == call[c] IN
  /\ r.pc = "final"
  /\ LastUsedConfig' = r.cfg
  /\ IF ~IsMariaDBRunning
     THEN /\ call' = [call EXCEPT ![c] = Done(r, "StartTimeout")]
          /\ UNCHANGED CurrentStatus
     ELSE /\ CurrentStatus' = GetMariaDBStatus
          /\ call' = [call EXCEPT ![c] =
                        Done([r EXCEPT !.effects = @ \cup {"lastused", "status"}], "OK")]
  /\ UNCHANGED <<procs, nextPid, dataDir, SavedCredentials, env>>

\* The final verification, and on success the record of the last used
\* profile and of the global status.
StartFinal(c) ==
  LET r == call[c] IN
  /\ r.pc = "final"
  /\ IF ~IsMariaDBRunning
     THEN /\ call' = [call EXCEPT ![c] = Done(r, "StartTimeout")]
          /\ UNCHANGED <<LastUsedConfig, CurrentStatus>>
     ELSE /\ LastUsedConfig' = r.cfg
          /\ CurrentStatus' = GetMariaDBStatus
          /\ call' = [call EXCEPT ![c] =
                        Done([r EXCEPT !.effects = @ \cup {"lastused", "status"}], "OK")]
  /\ UNCHANGED <<procs, nextPid, dataDir, SavedCredentials, env>>

\* ------------------------------------------------------------------- Stop
\* StopReturn with the error of CLI.Stop ignored by CLI.Switch.
StopReturn_IgnoreError(r, res) ==
  IF r.op = "Switch" THEN [r EXCEPT !.pc = "enter"]
  ELSE Done(r, res)

\* Where a finished Stop hands over: CLI.Switch goes on to start the target
\* profile when Stop returned nil, every other caller gets the result.
StopReturn(r, res) ==
  IF r.op = "Switch" /\ res = "OK" THEN [r EXCEPT !.pc = "enter"]
  ELSE Done(r, res)

\* StopCheck refusing a Stop made while not running with an error.
StopCheck_NotRunning(c, r) ==
  IF ~IsMariaDBRunning
  THEN /\ call' = [call EXCEPT ![c] = StopReturn(r, "NotRunning")]
       /\ UNCHANGED SavedCredentials
  ELSE \E save \in BOOLEAN :
         /\ SavedCredentials' = (SavedCredentials \/ save)
         /\ call' = [call EXCEPT ![c] =
              [r EXCEPT !.pc = "shutdown",
                        !.effects = @ \cup {"credsPrompt"} \cup
                                    (IF save THEN {"credsSaved"} ELSE {})]]

\* CLI.Stop up to the shutdown command: a no-op when not running, else the
\* credentials prompt (which may save the credentials entered).
StopCheck(c, r) ==
  IF ~IsMariaDBRunning
  THEN /\ call' = [call EXCEPT ![c] = StopReturn(r, "OK")]
       /\ UNCHANGED SavedCredentials
  ELSE \E save \in BOOLEAN :
         /\ SavedCredentials' = (SavedCredentials \/ save)
         /\ call' = [call EXCEPT ![c] =
              [r EXCEPT !.pc = "shutdown",
                        !.effects = @ \cup {"credsPrompt"} \cup
                                    (IF save THEN {"credsSaved"} ELSE {})]]

CLIStop(c) ==
  /\ call[c].pc = "idle"
  /\ StopCheck(c, Begin("Stop", "none"))
  /\ UNCHANGED <<procs, nextPid, dataDir, LastUsedConfig, CurrentStatus, env>>

\* The tray's "Stop MariaDB" item: StopMySQLWithCredentials with the default
\* credentials, without a status check.
TrayStop(c) ==
  /\ call[c].pc = "idle"
  /\ call' = [call EXCEPT ![c] = [Begin("TrayStop", "none") EXCEPT !.pc = "shutdown"]]
  /\ UNCHANGED <<procs, nextPid, dataDir, LastUsedConfig, CurrentStatus,
                 SavedCredentials, env>>

\* StopMySQLWithCredentials: run `mysqladmin ... shutdown`.  It succeeds when
\* a server accepts the connection and the credentials; the server then
\* begins to shut down.  Any failure (the tool missing, no server to connect
\* to, or a server that answers "Access denied" to the credentials given) is
\* returned as "shutdown failed: <exit status>".
StopShutdown(c) ==
  LET r  == call[c]
      r1 == [r EXCEPT !.effects = @ \cup {"shutdownCmd"}]
      answers == IF \E p \in procs : p.state = "listening" THEN BOOLEAN ELSE {FALSE}
  IN
  /\ r.pc = "shutdown"
  /\ \/ \E p \in procs :
          /\ p.state = "listening"
          /\ procs' = (procs \ {p}) \cup {[p EXCEPT !.state = "stopping"]}
          /\ call' = [call EXCEPT ![c] = [r1 EXCEPT !.pc = "grace"]]
     \/ \E d \in answers :
          /\ UNCHANGED procs
          /\ call' = [call EXCEPT ![c] =
                        StopReturn([r1 EXCEPT !.denied = d], "ShutdownFailed")]
  /\ UNCHANGED <<nextPid, dataDir, LastUsedConfig, CurrentStatus,
                 SavedCredentials, env>>

\* StopGrace escalating to a forced kill when the server is still running
\* after the sleep.
StopGrace_ForceKill(c) ==
  LET r == call[c] IN
  /\ r.pc = "grace"
  /\ procs' = {}
  /\ call' = [call EXCEPT ![c] =
       StopReturn([r EXCEPT !.effects = @ \cup {"wait"}, !.afterStop = "stopped"],
                  "OK")]
  /\ UNCHANGED <<nextPid, dataDir, LastUsedConfig, CurrentStatus,
                 SavedCredentials, env>>

\* The 3 second sleep after an accepted shutdown, then `return nil`.
StopGrace(c) ==
  LET r == call[c] IN
  /\ r.pc = "grace"
  /\ call' = [call EXCEPT ![c] =
       StopReturn([r EXCEPT !.effects = @ \cup {"wait"},
                            !.afterStop = IF IsMariaDBRunning THEN "running"
                                          ELSE "stopped"], "OK")]
  /\ UNCHANGED <<procs, nextPid, dataDir, LastUsedConfig, CurrentStatus,
                 SavedCredentials, env>>

\* ----------------------------------------------------------------- Switch
\* Switch going to the Start without a Stop.
Switch_NoStop(c, cfg) ==
  /\ call[c].pc = "idle"
  /\ call' = [call EXCEPT ![c] = [Begin("Switch", cfg) EXCEPT !.pc = "enter"]]
  /\ UNCHANGED <<procs, nextPid, dataDir, LastUsedConfig, CurrentStatus,
                 SavedCredentials, env>>

\* CLI.Switch: look the profile up; when running, CLI.Stop first; then
\* StartMariaDBWithConfig with the target profile.
Switch(c, cfg) ==
  /\ call[c].pc = "idle"
  /\ IF IsMariaDBRunning
     THEN StopCheck(c, Begin("Switch", cfg))
     ELSE /\ call' = [call EXCEPT ![c] = StartCheck(Begin("Switch", cfg))]
          /\ UNCHANGED SavedCredentials
  /\ UNCHANGED <<procs, nextPid, dataDir, LastUsedConfig, CurrentStatus, env>>

\* ------------------------------------------------------- operating system
\* A starting server binds its port and accepts connections.
ProcReady(p) ==
  /\ p \in procs /\ p.state = "starting"
  /\ ~PortBound(PortOf[p.cfg])
  /\ procs' = (procs \ {p}) \cup {[p EXCEPT !.state = "listening"]}
  /\ UNCHANGED <<nextPid, dataDir, LastUsedConfig, CurrentStatus,
                 SavedCredentials, call, env>>

\* A server process exits: shutdown completed, bind failed, or a crash.
ProcExit(p) ==
  /\ p \in procs
  /\ procs' = procs \ {p}
  /\ UNCHANGED <<nextPid, dataDir, LastUsedConfig, CurrentStatus,
                 SavedCredentials, call, env>>

\* Another program binds, or releases, a port.
ForeignBind(port) ==
  /\ ~PortBound(port)
  /\ foreignPort' = foreignPort \cup {port}
  /\ UNCHANGED <<procs, nextPid, dataDir, cfgExists, LastUsedConfig,
                 CurrentStatus, SavedCredentials, call, portDecl, query, pure>>

ForeignRelease(port) ==
  /\ port \in foreignPort
  /\ foreignPort' = foreignPort \ {port}
  /\ UNCHANGED <<procs, nextPid, dataDir, cfgExists, LastUsedConfig,
                 CurrentStatus, SavedCredentials, call, portDecl, query, pure>>

Next ==
  \/ \E c \in Callers, cfg \in Profiles : Start(c, cfg)
  \/ \E c \in Callers : StartEnter(c)
  \/ \E c \in Callers : StartPrepare(c)
  \/ \E c \in Callers : StartRecheck(c)
  \/ \E c \in Callers : StartSpawn(c)
  \/ \E c \in Callers : StartPoll(c)
  \/ \E c \in Callers : StartFinal(c)
  \/ \E c \in Callers : CLIStop(c)
  \/ \E c \in Callers : TrayStop(c)
  \/ \E c \in Callers : StopShutdown(c)
  \/ \E c \in Callers : StopGrace(c)
  \/ \E c \in Callers, cfg \in Profiles : Switch(c, cfg)
  \/ \E p \in procs : ProcReady(p)
  \/ \E p \in procs : ProcExit(p)
  \/ \E port \in Ports : ForeignBind(port)
  \/ \E port \in Ports : ForeignRelease(port)

Spec == Init /\ [][Next]_vars

\* The lifecycle with profiles that declare different ports, as the README
\* that EnsureConfigDirectory writes suggests ("Different configs can use
\* different ports to run simultaneously"): a server of "prod" is running on
\* 3306 and "dev" declares 3307.
InitPorts ==
  /\ procs = {[pid |-> 1, cfg |-> "prod", state |-> "listening"]}
  /\ nextPid = 2
  /\ foreignPort = {}
  /\ cfgExists = [p \in Profiles |-> TRUE]
  /\ dataDir = [p \in Profiles |-> "populated"]
  /\ LastUsedConfig = "prod"
  /\ CurrentStatus = GetMariaDBStatus
  /\ SavedCredentials = FALSE
  /\ call = [c \in Callers |-> Idle]
  /\ portDecl = [p \in Profiles |-> IF p = "dev" THEN "3307" ELSE "3306"]
  /\ query = QueryIdle
  /\ parse = ParseIdle
  /\ lookup = LookupIdle
  /\ tool = ToolIdle
  /\ spawn = SpawnIdle
  /\ chain = ChainIdle
  /\ start = StartIdle
  /\ scan = ScanIdle
  /\ readers = ReadersIdle
  /\ snap = SnapIdle

SpecPorts == InitPorts /\ [][Next]_vars

\* ------------------------------------------------------------ status query
\* GetMariaDBStatus step by step: it lists the processes twice (once inside
\* IsMariaDBRunning, once for the details), and the process table may change
\* between the two listings.

\* What --defaults-file of a server's command line may name: a profile of the
\* catalog, a file outside the catalog, or nothing (no such argument).
CmdLineConfigs == Profiles \cup {"other", "none"}

\* getCurrentPort: the port found from the running instance (command line,
\* database query, socket listing, probe of the common ports), "3306" when
\* nothing is found.
getCurrentPort ==
  LET ls == {p \in procs : p.state = "listening" /\ p.cfg \in Profiles}
  IN  IF ls = {} THEN "3306"
      ELSE PortOf[(CHOOSE q \in ls : \A o \in ls : q.pid <= o.pid).cfg]

\* The details filled in from the row found by the second listing.
StatusDetails(st, row) ==
  IF ~row.found THEN st
  ELSE LET st1 == [st EXCEPT !.ProcessID = row.pid] IN
       IF row.cfg = "none" THEN [st1 EXCEPT !.Port = getCurrentPort]
       ELSE IF row.cfg \in Profiles
            THEN [st1 EXCEPT !.ConfigFile = row.cfg, !.ConfigName = row.cfg,
                             !.Port = PortOf[row.cfg],
                             !.DataPath = DataDirOf[row.cfg]]
            ELSE [st1 EXCEPT !.ConfigFile = row.cfg]

\* StatusProbe1 with the version looked up before the running check.
StatusProbe1_VersionFirst ==
  /\ query.pc = "idle"
  /\ query' = IF IsMariaDBRunning
              THEN [pc |-> "details", status |-> [MariaDBStatus EXCEPT !.IsRunning = TRUE]]
              ELSE [pc |-> "done", status |-> [MariaDBStatus EXCEPT !.Version = "Unknown"]]
  /\ UNCHANGED <<procs, nextPid, foreignPort, dataDir, cfgExists, LastUsedConfig,
                 CurrentStatus, SavedCredentials, call, portDecl, pure>>

\* status.IsRunning = IsMariaDBRunning(), and the early return when false.
StatusProbe1 ==
  /\ query.pc = "idle"
  /\ query' = IF IsMariaDBRunning
              THEN [pc |-> "details", status |-> [MariaDBStatus EXCEPT !.IsRunning = TRUE]]
              ELSE [pc |-> "done", status |-> MariaDBStatus]
  /\ UNCHANGED <<procs, nextPid, foreignPort, dataDir, cfgExists, LastUsedConfig,
                 CurrentStatus, SavedCredentials, call, portDecl, pure>>

\* The second listing, the details, and GetMariaDBVersion ("Unknown" when the
\* executable cannot be run).
StatusProbe2 ==
  /\ query.pc = "details"
  /\ \E v \in {"Unknown", "10.11.6-MariaDB"} :
       query' = [pc |-> "done",
                 status |-> [StatusDetails(query.status, FindProcessWithCmdLine)
                               EXCEPT !.Version = v]]
  /\ UNCHANGED <<procs, nextPid, foreignPort, dataDir, cfgExists, LastUsedConfig,
                 CurrentStatus, SavedCredentials, call, portDecl, pure>>

\* A server process appears in the process table (started by this program
\* or by anything else).
ProcAppear(cfg) ==
  /\ nextPid <= MaxPid
  /\ procs' = procs \cup {[pid |-> nextPid, cfg |-> cfg, state |-> "listening"]}
  /\ nextPid' = nextPid + 1
  /\ UNCHANGED <<dataDir, LastUsedConfig, CurrentStatus, SavedCredentials,
                 call, env>>

InitStatus ==
  /\ procs = {}
  /\ nextPid = 1
  /\ foreignPort = {}
  /\ cfgExists = [p \in Profiles |-> TRUE]
  /\ dataDir = [p \in Profiles |-> "populated"]
  /\ LastUsedConfig = "none"
  /\ CurrentStatus = GetMariaDBStatus
  /\ SavedCredentials = FALSE
  /\ call = [c \in Callers |-> Idle]
  /\ portDecl \in [Profiles -> {"3306", "3307"}]
  /\ query = QueryIdle
  /\ parse = ParseIdle
  /\ lookup = LookupIdle
  /\ tool = ToolIdle
  /\ spawn = SpawnIdle
  /\ chain = ChainIdle
  /\ start = StartIdle
  /\ scan = ScanIdle
  /\ readers = ReadersIdle
  /\ snap = SnapIdle

NextStatus ==
  \/ StatusProbe1
  \/ StatusProbe2
  \/ \E cfg \in CmdLineConfigs : ProcAppear(cfg)
  \/ \E p \in procs : ProcExit(p)

SpecStatus == InitStatus /\ [][NextStatus]_vars

\* ----------------------------------------------------------- ParseConfigFile
\* Strings are sequences of characters, so that trimming, lower-casing and
\* splitting are computed as the strings package computes them.
MaxLines == 3

\* The lines a profile file is made of here:
\*   '[mysqld]'       the section header
\*   ' [MySQLd]<tab>' the header in mixed case with white space around it
\*   '[client]'       another section
\*   '[mysqld] ; db'  a header followed by a comment
\*   'port=3307'      a port key
\*   ' Port = "3308" ' a port key in capitals, spaced and quoted
\*   'datadir=/d'     the data directory
\*   "comment='c=1'"  a description with a '=' in its value
\*   '# port=1'       a comment
\*   'port'           a key without a value
\*   ''               an empty line
FileLines ==
  {<<"[", "m", "y", "s", "q", "l", "d", "]">>,
   <<" ", "[", "M", "y", "S", "Q", "L", "d", "]", "\t">>,
   <<"[", "c", "l", "i", "e", "n", "t", "]">>,
   <<"[", "m", "y", "s", "q", "l", "d", "]", " ", ";", " ", "d", "b">>,
   <<"p", "o", "r", "t", "=", "3", "3", "0", "7">>,
   <<" ", "P", "o", "r", "t", " ", "=", " ", "\"", "3", "3", "0", "8", "\"", " ">>,
   <<"d", "a", "t", "a", "d", "i", "r", "=", "/", "d">>,
   <<"c", "o", "m", "m", "e", "n", "t", "=", "'", "c", "=", "1", "'">>,
   <<"#", " ", "p", "o", "r", "t", "=", "1">>,
   <<"p", "o", "r", "t">>,
   <<>>}

WhiteSpace == {" ", "\t"}

\* strings.Trim(s, cutset): leading and trailing characters of cutset removed.
Trim(s, cutset) ==
  LET keep == {i \in 1..Len(s) : s[i] \notin cutset}
  IN  IF keep = {} THEN <<>>
      ELSE SubSeq(s, CHOOSE i \in keep : \A j \in keep : i <= j,
                     CHOOSE i \in keep : \A j \in keep : i >= j)

TrimSpace(s) == Trim(s, WhiteSpace)

\* strings.ToLower, on the capitals that occur in FileLines.
LowerOf ==
  [c \in {"M", "S", "Q", "L", "P"} |->
     CASE c = "M" -> "m" [] c = "S" -> "s" [] c = "Q" -> "q"
       [] c = "L" -> "l" [] c = "P" -> "p"]

ToLower(s) == [i \in 1..Len(s) |-> IF s[i] \in DOMAIN LowerOf THEN LowerOf[s[i]] ELSE s[i]]

HasPrefix(s, prefix) ==
  Len(s) >= Len(prefix) /\ SubSeq(s, 1, Len(prefix)) = prefix

\* strings.Contains(s, "=").
ContainsEq(s) == \E i \in 1..Len(s) : s[i] = "="

\* strings.SplitN(s, "=", 2) of a string that contains "=".
SplitN2(s) ==
  LET i == CHOOSE k \in 1..Len(s) : s[k] = "=" /\ \A j \in 1..(k - 1) : s[j] # "="
  IN  <<SubSeq(s, 1, i - 1), SubSeq(s, i + 1, Len(s))>>

\* ParseLine with the section flag only ever switched on.
ParseLine_FlagNotReset(st, raw) ==
  LET line == TrimSpace(raw) IN
  IF line = <<>> \/ HasPrefix(line, <<"#">>) \/ HasPrefix(line, <<";">>) THEN st
  ELSE IF HasPrefix(line, <<"[">>)
  THEN [st EXCEPT !.inMysqldSection = @ \/ ToLower(line) = <<"[", "m", "y", "s", "q", "l", "d", "]">>]
  ELSE IF st.inMysqldSection /\ ContainsEq(line)
  THEN LET parts == SplitN2(line)
           key   == TrimSpace(ToLower(parts[1]))
           value == Trim(TrimSpace(parts[2]), {"\"", "'"})
       IN  IF key \in {<<"d", "a", "t", "a", "d", "i", "r">>, <<"d", "a", "t", "a", "_", "d", "i", "r">>}
           THEN [st EXCEPT !.config.DataDir = value]
           ELSE IF key = <<"p", "o", "r", "t">>
           THEN [st EXCEPT !.config.Port = value]
           ELSE IF key \in {<<"d", "e", "s", "c", "r", "i", "p", "t", "i", "o", "n">>, <<"c", "o", "m", "m", "e", "n", "t">>}
           THEN [st EXCEPT !.config.Description = value]
           ELSE st
  ELSE st

\* One iteration of the scanner loop of ParseConfigFile on the line raw, from
\* the loop state st (the section flag and the fields so far).
ParseLine(st, raw) ==
  LET line == TrimSpace(raw) IN
  IF line = <<>> \/ HasPrefix(line, <<"#">>) \/ HasPrefix(line, <<";">>) THEN st
  ELSE IF HasPrefix(line, <<"[">>)
  THEN [st EXCEPT !.inMysqldSection = (ToLower(line) = <<"[", "m", "y", "s", "q", "l", "d", "]">>)]
  ELSE IF st.inMysqldSection /\ ContainsEq(line)
  THEN LET parts == SplitN2(line)
           key   == TrimSpace(ToLower(parts[1]))
           value == Trim(TrimSpace(parts[2]), {"\"", "'"})
       IN  IF key \in {<<"d", "a", "t", "a", "d", "i", "r">>, <<"d", "a", "t", "a", "_", "d", "i", "r">>}
           THEN [st EXCEPT !.config.DataDir = value]
           ELSE IF key = <<"p", "o", "r", "t">>
           THEN [st EXCEPT !.config.Port = value]
           ELSE IF key \in {<<"d", "e", "s", "c", "r", "i", "p", "t", "i", "o", "n">>, <<"c", "o", "m", "m", "e", "n", "t">>}
           THEN [st EXCEPT !.config.Description = value]
           ELSE st
  ELSE st

\* The scanner loop over the first n lines of text.
RECURSIVE ScanLines(_, _)
ScanLines(text, n) ==
  IF n = 0 THEN [inMysqldSection |-> FALSE, config |-> MariaDBConfig]
  ELSE ParseLine(ScanLines(text, n - 1), text[n])

\* The end of ParseConfigFile without the default port.
DefaultPort_Missing(config) == config

\* The end of ParseConfigFile: the default port when none was set.
DefaultPort(config) ==
  IF config.Port = <<>> THEN [config EXCEPT !.Port = <<"3", "3", "0", "6">>] ELSE config

\* ParseConfigFile of a file that opens, with the lines text.
ParseConfigFile(text) ==
  [DefaultPort(ScanLines(text, Len(text)).config) EXCEPT !.Exists = TRUE]

\* A call of ParseConfigFile: Exists is PathExists of the path; a file that
\* cannot be opened gives the profile with no other field set, a file that
\* opens is scanned.
Parse ==
  /\ parse.pc = "idle"
  /\ parse' = [parse EXCEPT !.pc = "done",
                            !.config = IF parse.readable
                                       THEN ParseConfigFile(parse.text)
                                       ELSE [MariaDBConfig EXCEPT !.Exists = parse.present]]
  /\ UNCHANGED <<lifecycle, lookup, tool, spawn, chain, start, scan, readers, snap>>

Texts == UNION {[1..n -> FileLines] : n \in 0..MaxLines}

InitParse ==
  /\ procs = {}
  /\ nextPid = 1
  /\ foreignPort = {}
  /\ cfgExists = [p \in Profiles |-> TRUE]
  /\ dataDir = [p \in Profiles |-> "populated"]
  /\ LastUsedConfig = "none"
  /\ CurrentStatus = GetMariaDBStatus
  /\ SavedCredentials = FALSE
  /\ call = [c \in Callers |-> Idle]
  /\ portDecl = [p \in Profiles |-> "3306"]
  /\ query = QueryIdle
  /\ \E text \in Texts, present \in BOOLEAN, readable \in BOOLEAN :
       /\ readable => present
       /\ parse = [ParseIdle EXCEPT !.text = text, !.present = present,
                                    !.readable = readable]
  /\ lookup = LookupIdle
  /\ tool = ToolIdle
  /\ spawn = SpawnIdle
  /\ chain = ChainIdle
  /\ start = StartIdle
  /\ scan = ScanIdle
  /\ readers = ReadersIdle
  /\ snap = SnapIdle

NextParse == Parse

SpecParse == InitParse /\ [][NextParse]_vars

\* ---------------------------------------------------------- FindConfigByPath
\* A path is the list of what stands between its separators (so "" for a
\* doubled or a trailing separator), and whether it begins with a separator:
\* "/conf//x/../dev.ini" is abs with segs <<"conf", "", "x", "..", "dev.ini">>.
MaxSegs == 5

Segments == {"", ".", "..", "conf", "x", "dev.ini", "prod.ini"}

\* Config.Path of the catalog's profiles, as filepath.Glob on
\* filepath.Join(configDir, pattern) gives them.
PathOf ==
  [p \in Profiles |->
     [abs |-> TRUE, segs |-> <<"conf", IF p = "dev" THEN "dev.ini" ELSE "prod.ini">>]]

\* filepath.Clean: empty and "." elements dropped, each ".." removed with
\* the element before it (dropped at the root, kept at the start of a
\* relative path), "." for an empty result.
Clean(path) ==
  LET F[n \in 0..Len(path.segs)] ==
        IF n = 0 THEN <<>>
        ELSE LET seg == path.segs[n]
                 out == F[n - 1]
             IN  IF seg \in {"", "."} THEN out
                 ELSE IF seg = ".."
                 THEN IF out # <<>> /\ out[Len(out)] # ".."
                      THEN SubSeq(out, 1, Len(out) - 1)
                      ELSE IF path.abs THEN out ELSE Append(out, "..")
                 ELSE Append(out, seg)
      out == F[Len(path.segs)]
  IN  [abs |-> path.abs,
       segs |-> IF out = <<>> /\ ~path.abs THEN <<".">> ELSE out]

\* FindConfigByPath comparing the path as given.
FindConfigByPath_RawCompare(path) ==
  LET hits == {p \in Profiles : Clean(PathOf[p]) = path}
  IN  IF hits = {} THEN "none" ELSE CHOOSE p \in hits : TRUE

\* FindConfigByPath: the profile of the catalog whose cleaned path equals
\* the cleaned path given, nil ("none") when there is none.
FindConfigByPath(path) ==
  LET normalizedPath == Clean(path)
      hits == {p \in Profiles : Clean(PathOf[p]) = normalizedPath}
  IN  IF hits = {} THEN "none" ELSE CHOOSE p \in hits : TRUE

\* A call of FindConfigByPath.
Find ==
  /\ lookup.pc = "idle"
  /\ lookup' = [lookup EXCEPT !.pc = "done", !.found = FindConfigByPath(lookup.path)]
  /\ UNCHANGED <<lifecycle, parse, tool, spawn, chain, start, scan, readers, snap>>

Paths ==
  {[abs |-> a, segs |-> ss] :
     a \in BOOLEAN, ss \in UNION {[1..n -> Segments] : n \in 0..MaxSegs}}

InitFind ==
  /\ procs = {}
  /\ nextPid = 1
  /\ foreignPort = {}
  /\ cfgExists = [p \in Profiles |-> TRUE]
  /\ dataDir = [p \in Profiles |-> "populated"]
  /\ LastUsedConfig = "none"
  /\ CurrentStatus = GetMariaDBStatus
  /\ SavedCredentials = FALSE
  /\ call = [c \in Callers |-> Idle]
  /\ portDecl = [p \in Profiles |-> "3306"]
  /\ query = QueryIdle
  /\ parse = ParseIdle
  /\ \E path \in Paths : lookup = [LookupIdle EXCEPT !.path = path]
  /\ tool = ToolIdle
  /\ spawn = SpawnIdle
  /\ chain = ChainIdle
  /\ start = StartIdle
  /\ scan = ScanIdle
  /\ readers = ReadersIdle
  /\ snap = SnapIdle

NextFind == Find

SpecFind == InitFind /\ [][NextFind]_vars

\* ------------------------------------------------------------ external tools
\* The external programs an operation runs and waits for, in the order of
\* its longest path:
\*   Status  GetMariaDBStatus: the process listing of IsMariaDBRunning, of
\*           FindProcessWithCmdLine and of extractPortFromCmdLine, the mysql
\*           client of queryDatabasePort, netstat, mysqld --version
\*   Stop    CLI.Stop: the process listing, mysqladmin shutdown
\*   Start   StartMariaDBWithConfig: the process listing, which/where,
\*           mysql_install_db, mysqld --initialize-insecure, the process
\*           listing of the re-check, mysqld --validate-config, the process
\*           listing of a poll and of the final check
\*   TestConnection  TestMySQLConnection of the credentials dialog
ToolCalls ==
  [op \in {"Status", "Stop", "Start", "TestConnection"} |->
     CASE op = "Status" -> <<"ps", "ps", "ps", "mysql", "netstat", "version">>
       [] op = "Stop"   -> <<"ps", "mysqladmin">>
       [] op = "Start"  -> <<"ps", "which", "install_db", "initialize", "ps",
                             "validate", "ps", "ps">>
       [] op = "TestConnection" -> <<"mysqltest">>]

\* The calls made with exec.CommandContext under context.WithTimeout; every
\* other call is exec.Command(...).Output() / CombinedOutput(), which waits
\* until the program exits.
Timed == {"mysqltest"}

\* The calls whose error makes the operation return.
Fatal == {"mysqladmin", "initialize", "mysqltest"}

\* The operation after the program of its current call has ended with the
\* outcome given: the next call (whose program may hang), or the return.
ToolNext(outcome, hung) ==
  LET t == ToolCalls[tool.op][tool.step] IN
  IF tool.step = Len(ToolCalls[tool.op]) \/ (outcome # "ok" /\ t \in Fatal)
  THEN [tool EXCEPT !.pc = "done", !.hung = FALSE,
                    !.outcomes = Append(@, outcome)]
  ELSE [tool EXCEPT !.step = @ + 1, !.hung = hung,
                    !.outcomes = Append(@, outcome)]

\* An operation begins and waits for its first external program.
ToolBegin(op) ==
  /\ tool.pc = "idle"
  /\ \E hung \in BOOLEAN :
       tool' = [ToolIdle EXCEPT !.pc = "waiting", !.op = op, !.step = 1,
                                !.hung = hung]
  /\ UNCHANGED <<lifecycle, parse, lookup, spawn, chain, start, scan, readers, snap>>

\* The external program exits (a hung one never does).
ToolExit ==
  /\ tool.pc = "waiting" /\ ~tool.hung
  /\ \E outcome \in {"ok", "err"}, hung \in BOOLEAN : tool' = ToolNext(outcome, hung)
  /\ UNCHANGED <<lifecycle, parse, lookup, spawn, chain, start, scan, readers, snap>>

\* The context's deadline passes: the program is killed and the call
\* returns an error.
ToolDeadline ==
  /\ tool.pc = "waiting" /\ ToolCalls[tool.op][tool.step] \in Timed
  /\ \E hung \in BOOLEAN : tool' = ToolNext("timeout", hung)
  /\ UNCHANGED <<lifecycle, parse, lookup, spawn, chain, start, scan, readers, snap>>

InitTools ==
  /\ procs = {}
  /\ nextPid = 1
  /\ foreignPort = {}
  /\ cfgExists = [p \in Profiles |-> TRUE]
  /\ dataDir = [p \in Profiles |-> "populated"]
  /\ LastUsedConfig = "none"
  /\ CurrentStatus = GetMariaDBStatus
  /\ SavedCredentials = FALSE
  /\ call = [c \in Callers |-> Idle]
  /\ portDecl = [p \in Profiles |-> "3306"]
  /\ query = QueryIdle
  /\ parse = ParseIdle
  /\ lookup = LookupIdle
  /\ tool = ToolIdle
  /\ spawn = SpawnIdle
  /\ chain = ChainIdle
  /\ start = StartIdle
  /\ scan = ScanIdle
  /\ readers = ReadersIdle
  /\ snap = SnapIdle

NextTools ==
  \/ \E op \in DOMAIN ToolCalls : ToolBegin(op)
  \/ ToolExit
  \/ ToolDeadline

\* A program that does not hang exits in the end, and a deadline that is set
\* passes in the end.
SpecTools ==
  InitTools /\ [][NextTools]_vars /\ WF_vars(ToolExit) /\ WF_vars(ToolDeadline)

\* ------------------------------------------------- spawn and command line
\* The path of a profile file goes into the argument --defaults-file=<path>
\* of the spawn, comes back in the COMMAND column of the process listing,
\* and is cut out of it by extractConfigFromCmdLine.
MaxPathLen == 5

\* Absolute paths of profile files: they begin with a separator and end
\* with a letter; directory and file names may contain a blank.
PathChars == {"/", "d", " "}

ProfilePaths ==
  {s \in UNION {[1..n -> PathChars] : n \in 2..MaxPathLen} :
     s[1] = "/" /\ s[Len(s)] = "d"}

\* strings.Index(s, sub): the first position (from 1) of sub in s, 0 for none.
Index(s, sub) ==
  LET at == {i \in 1..(Len(s) - Len(sub) + 1) : SubSeq(s, i, i + Len(sub) - 1) = sub}
  IN  IF at = {} THEN 0 ELSE CHOOSE i \in at : \A j \in at : i <= j

\* strings.IndexAny(s, chars): the first position of a character of chars.
IndexAny(s, chars) ==
  LET at == {i \in 1..Len(s) : s[i] \in chars}
  IN  IF at = {} THEN 0 ELSE CHOOSE i \in at : \A j \in at : i <= j

\* strings.Fields: the maximal runs of characters that are not white space.
Fields(s) ==
  LET F[n \in 0..Len(s)] ==
        IF n = 0 THEN <<>>
        ELSE LET out == F[n - 1] IN
             IF s[n] \in WhiteSpace \cup {"\n"} THEN out
             ELSE IF n > 1 /\ s[n - 1] \notin WhiteSpace \cup {"\n"}
                  THEN [out EXCEPT ![Len(out)] = Append(@, s[n])]
                  ELSE Append(out, <<s[n]>>)
  IN  F[Len(s)]

\* strings.Join(parts, " ").
Join(parts) ==
  LET F[n \in 0..Len(parts)] ==
        IF n = 0 THEN <<>>
        ELSE IF n = 1 THEN parts[1]
        ELSE F[n - 1] \o <<" ">> \o parts[n]
  IN  F[Len(parts)]

\* The arguments of the spawn: the executable, --defaults-file=<path>,
\* --console.
SpawnArgs(path) ==
  <<<<"m", "y", "s", "q", "l", "d">>,
    <<"-", "-", "d", "e", "f", "a", "u", "l", "t", "s", "-", "f", "i", "l", "e", "=">> \o path,
    <<"-", "-", "c", "o", "n", "s", "o", "l", "e">>>>

\* The COMMAND column of `ps aux` for a process: its arguments separated by
\* blanks, as findUnixProcessWithCmdLine joins them again from the fields of
\* the line.
ListedCmdLine(args) == Join(Fields(Join(args)))

\* extractConfigFromCmdLine: what follows "--defaults-file=" up to the next
\* white space, or the field after "--defaults-file"; quotes trimmed.
extractConfigFromCmdLine(cmdLine) ==
  LET idx == Index(cmdLine, <<"-", "-", "d", "e", "f", "a", "u", "l", "t", "s", "-", "f", "i", "l", "e", "=">>) IN
  IF idx # 0
  THEN LET rest == SubSeq(cmdLine, idx + 16, Len(cmdLine))
           end  == IndexAny(rest, {" ", "\t", "\n"})
       IN  IF end = 0 THEN Trim(rest, {"\"", "'"})
           ELSE Trim(SubSeq(rest, 1, end - 1), {"\"", "'"})
  ELSE LET parts == Fields(cmdLine)
           at    == {i \in 1..(Len(parts) - 1) : parts[i] = <<"-", "-", "d", "e", "f", "a", "u", "l", "t", "s", "-", "f", "i", "l", "e">>}
       IN  IF at = {} THEN <<>>
           ELSE Trim(parts[(CHOOSE i \in at : \A j \in at : i <= j) + 1], {"\"", "'"})

\* The spawn of StartMariaDBWithConfig with the profile path, and the
\* process as the next listing shows it.
SpawnListed ==
  /\ spawn.pc = "idle"
  /\ spawn' = [spawn EXCEPT !.pc = "listed",
                            !.cmdLine = ListedCmdLine(SpawnArgs(spawn.path))]
  /\ UNCHANGED <<lifecycle, parse, lookup, tool, chain, start, scan, readers, snap>>

\* The status query reads the configuration file off the command line.
SpawnResolved ==
  /\ spawn.pc = "listed"
  /\ spawn' = [spawn EXCEPT !.pc = "done",
                            !.configFile = extractConfigFromCmdLine(spawn.cmdLine)]
  /\ UNCHANGED <<lifecycle, parse, lookup, tool, chain, start, scan, readers, snap>>

InitSpawn ==
  /\ LifecycleQuiet
  /\ parse = ParseIdle
  /\ lookup = LookupIdle
  /\ tool = ToolIdle
  /\ \E path \in ProfilePaths : spawn = [SpawnIdle EXCEPT !.path = path]
  /\ chain = ChainIdle
  /\ start = StartIdle
  /\ scan = ScanIdle
  /\ readers = ReadersIdle
  /\ snap = SnapIdle

NextSpawn ==
  \/ SpawnListed
  \/ SpawnResolved

SpecSpawn == InitSpawn /\ [][NextSpawn]_vars

\* ---------------------------------------------------------- getCurrentPort
\* What the four methods of getCurrentPort read: the value of --port on the
\* server's command line ("" when absent), the answer of the server to
\* SHOW VARIABLES LIKE 'port' ("" when the query fails), the listening rows
\* of netstat with the process id of the server, and the ports that accept
\* a connection.
MaxRows == 2

\* Process ids, as strconv.Itoa prints them.
PidStrings == {<<"1", "2">>, <<"3", "1", "2">>}

\* Listening rows of netstat: the process column and the port of the local
\* address.
NetstatRows ==
  {[processInfo |-> <<"1", "2", "/", "m", "y", "s", "q", "l", "d">>, port |-> "3309"],
   [processInfo |-> <<"3", "1", "2", "/", "m", "y", "s", "q", "l", "d">>, port |-> "3310"],
   [processInfo |-> <<"4", "1", "2", "0", "/", "s", "s", "h", "d">>, port |-> "22"],
   [processInfo |-> <<"-">>, port |-> "3306"]}

commonPorts == <<"3306", "3307", "3308", "3309", "3310">>

\* getPortFromNetstat: the port of the first listening row whose process
\* column contains the digits of the process id.
getPortFromNetstat(rows, pid) ==
  LET hits == {i \in 1..Len(rows) :
                 /\ Index(rows[i].processInfo, pid) # 0
                 /\ rows[i].port \notin {"0", ""}}
  IN  IF hits = {} THEN ""
      ELSE rows[CHOOSE i \in hits : \A j \in hits : i <= j].port

\* Method 4: the first of the common ports that accepts a connection.
firstListening(accepting) ==
  LET hits == {i \in 1..Len(commonPorts) : commonPorts[i] \in accepting}
  IN  IF hits = {} THEN ""
      ELSE commonPorts[CHOOSE i \in hits : \A j \in hits : i <= j]

\* getCurrentPort: the methods in turn, each consulted only when the ones
\* before it gave nothing; "3306" when none gives a port.
getCurrentPortChain(in) ==
  IF in.cmdPort # ""
  THEN [port |-> in.cmdPort, consulted |-> <<"cmdline">>]
  ELSE IF in.dbPort # ""
  THEN [port |-> in.dbPort, consulted |-> <<"cmdline", "query">>]
  ELSE IF getPortFromNetstat(in.netstat, in.pid) # ""
  THEN [port |-> getPortFromNetstat(in.netstat, in.pid),
        consulted |-> <<"cmdline", "query", "netstat">>]
  ELSE IF firstListening(in.accepting) # ""
  THEN [port |-> firstListening(in.accepting),
        consulted |-> <<"cmdline", "query", "netstat", "probe">>]
  ELSE [port |-> "3306", consulted |-> <<"cmdline", "query", "netstat", "probe">>]

\* A call of getCurrentPort.
ResolvePort ==
  /\ chain.pc = "idle"
  /\ chain' = [chain EXCEPT !.pc = "done",
                            !.port = getCurrentPortChain(chain).port,
                            !.consulted = getCurrentPortChain(chain).consulted]
  /\ UNCHANGED <<lifecycle, parse, lookup, tool, spawn, start, scan, readers, snap>>

InitChain ==
  /\ LifecycleQuiet
  /\ parse = ParseIdle
  /\ lookup = LookupIdle
  /\ tool = ToolIdle
  /\ spawn = SpawnIdle
  /\ \E cmdPort \in {"", "3307"}, dbPort \in {"", "3308"}, pid \in PidStrings,
        rows \in UNION {[1..n -> NetstatRows] : n \in 0..MaxRows},
        accepting \in SUBSET {"3306", "3308", "3310", "5432"} :
       chain = [ChainIdle EXCEPT !.cmdPort = cmdPort, !.dbPort = dbPort,
                                 !.pid = pid, !.netstat = rows,
                                 !.accepting = accepting]
  /\ start = StartIdle
  /\ scan = ScanIdle
  /\ readers = ReadersIdle
  /\ snap = SnapIdle

NextChain == ResolvePort

SpecChain == InitChain /\ [][NextChain]_vars

\* ------------------------------------------ StartMariaDBWithConfig, checks
\* The checks of one call of StartMariaDBWithConfig in the order of the
\* code, up to cmd.Start, against an environment fixed when the call begins.

\* The states of a data directory: missing, without entries, with entries
\* but without one of mysql, performance_schema, ibdata1, and complete.
DataDirStates == {"absent", "empty", "incomplete", "populated"}

\* The binary directory (AppConfig.MariaDBBin unset, naming a missing
\* directory, or a directory), whether it holds mysqld and mariadbd, and
\* whether `which mysqld` finds one on the PATH.
BinStates ==
  {b \in [dir : {"unset", "missing", "present"}, primary : BOOLEAN,
          alternate : BOOLEAN, which : BOOLEAN] :
     b.dir # "present" => (~b.primary /\ ~b.alternate)}

\* The resolution of the server executable: the path to run, or the error.
resolveBinary(b) ==
  IF b.dir = "unset" THEN [err |-> "BinaryNotFound", path |-> ""]
  ELSE IF b.dir = "missing" THEN [err |-> "BinaryNotFound", path |-> ""]
  ELSE IF b.primary THEN [err |-> "none", path |-> "bin/mysqld"]
  ELSE IF b.alternate THEN [err |-> "none", path |-> "bin/mariadbd"]
  ELSE IF b.which THEN [err |-> "none", path |-> "PATH/mysqld"]
  ELSE [err |-> "BinaryNotFound", path |-> ""]

\* The error return of IsDirEmpty.
IsDirEmptyErr(state) ==
  LET err == Readdirnames(state)
  IN  IF err = "ErrNotExist" \/ err = "nil" THEN "nil" ELSE err

\* ValidateDataDirectory: all of mysql, performance_schema, ibdata1 exist.
ValidateDataDirectory(state) == state = "populated"

\* Checked going on to the next step after a failed check.
Checked_GoesOn(s, step, err, next) ==
  [s EXCEPT !.pc = next, !.steps = Append(@, step),
            !.result = IF err # "none" THEN err ELSE @]

\* A check was made; the call returns err when it failed, else goes on.
Checked(s, step, err, next) ==
  IF err # "none"
  THEN [s EXCEPT !.pc = "done", !.steps = Append(@, step), !.result = err]
  ELSE [s EXCEPT !.pc = next, !.steps = Append(@, step)]

\* `if IsMariaDBRunning()` on entry.
CheckRunning ==
  /\ start.pc = "entry"
  /\ start' = Checked(start, "running",
                      IF start.running1 THEN "AlreadyRunning" ELSE "none", "binary")
  /\ UNCHANGED <<lifecycle, parse, lookup, tool, spawn, chain, scan, readers, snap>>

\* The binary directory checks and the three lookups.
ResolveBinary ==
  /\ start.pc = "binary"
  /\ start' = [Checked(start, "binary", resolveBinary(start.bin).err, "config")
                 EXCEPT !.mysqldPath = resolveBinary(start.bin).path]
  /\ UNCHANGED <<lifecycle, parse, lookup, tool, spawn, chain, scan, readers, snap>>

\* `if !PathExists(configFile)`.
CheckConfig ==
  /\ start.pc = "config"
  /\ start' = Checked(start, "config",
                      IF start.cfgExists THEN "none" ELSE "ConfigNotFound", "datadir")
  /\ UNCHANGED <<lifecycle, parse, lookup, tool, spawn, chain, scan, readers, snap>>

\* Validate and prepare the data directory: MkdirAll when it is missing,
\* then the initialization methods when IsDirEmpty says so, else
\* ValidateDataDirectory, whose answer is only logged.
PrepareDataDir ==
  LET missing == start.dir = "absent"
      d1      == IF missing /\ start.mkdirOK THEN "empty" ELSE start.dir
      s1      == IF missing THEN [start EXCEPT !.effects = @ \cup {"mkdir"}] ELSE start
      s2      == [s1 EXCEPT !.examined = d1, !.isEmpty = IsDirEmpty(d1),
                            !.dirErr = IsDirEmptyErr(d1)]
  IN
  /\ start.pc = "datadir"
  /\ start' =
       IF missing /\ ~start.mkdirOK
       THEN Checked(s1, "datadir", "DataDirInitFailed", "recheck")
       ELSE IF IsDirEmpty(d1)
       THEN IF start.ok1 \/ start.ok2
            THEN Checked([s2 EXCEPT !.effects = @ \cup {"init"}],
                         "datadir", "none", "recheck")
            ELSE Checked([s2 EXCEPT !.effects = @ \cup {"init"}],
                         "datadir", "DataDirInitFailed", "recheck")
       ELSE Checked([s2 EXCEPT !.effects = @ \cup {"validate"}],
                    "datadir", "none", "recheck")
  /\ UNCHANGED <<lifecycle, parse, lookup, tool, spawn, chain, scan, readers, snap>>

\* `if IsMariaDBRunning()` again.
Recheck ==
  /\ start.pc = "recheck"
  /\ start' = Checked(start, "recheck",
                      IF start.running2 THEN "AlreadyRunning" ELSE "none", "port")
  /\ UNCHANGED <<lifecycle, parse, lookup, tool, spawn, chain, scan, readers, snap>>

\* `if !IsPortAvailable(configData.Port)`.
CheckPort ==
  /\ start.pc = "port"
  /\ start' = Checked(start, "port",
                      IF start.portFree THEN "none" ELSE "PortOccupied", "spawn")
  /\ UNCHANGED <<lifecycle, parse, lookup, tool, spawn, chain, scan, readers, snap>>

\* cmd.Start: the server process is created.
SpawnServer ==
  /\ start.pc = "spawn"
  /\ start' = [start EXCEPT !.pc = "done", !.steps = Append(@, "spawn"),
                            !.effects = @ \cup {"spawn"}, !.result = "Spawned"]
  /\ UNCHANGED <<lifecycle, parse, lookup, tool, spawn, chain, scan, readers, snap>>

InitStart ==
  /\ LifecycleQuiet
  /\ parse = ParseIdle
  /\ lookup = LookupIdle
  /\ tool = ToolIdle
  /\ spawn = SpawnIdle
  /\ chain = ChainIdle
  /\ \E running1 \in BOOLEAN, bin \in BinStates, exists \in BOOLEAN,
        dir \in DataDirStates, mkdirOK \in BOOLEAN, ok1 \in BOOLEAN,
        ok2 \in BOOLEAN, running2 \in BOOLEAN, portFree \in BOOLEAN :
       start = [StartIdle EXCEPT !.pc = "entry", !.running1 = running1,
                                 !.bin = bin, !.cfgExists = exists, !.dir = dir,
                                 !.mkdirOK = mkdirOK, !.ok1 = ok1, !.ok2 = ok2,
                                 !.running2 = running2, !.portFree = portFree]
  /\ scan = ScanIdle
  /\ readers = ReadersIdle
  /\ snap = SnapIdle

NextStart ==
  \/ CheckRunning
  \/ ResolveBinary
  \/ CheckConfig
  \/ PrepareDataDir
  \/ Recheck
  \/ CheckPort
  \/ SpawnServer

SpecStart == InitStart /\ [][NextStart]_vars

\* ----------------------------------------------------------- ScanForConfigs
\* The files that may lie in the configuration directory.
FileNames ==
  {<<"b", ".", "i", "n", "i">>, <<"a", ".", "c", "n", "f">>, <<"B", ".", "i", "n", "i">>,
   <<"a", ".", "i", "n", "i">>, <<"n", ".", "t", "x", "t">>}

\* The byte values of the characters used (Go compares strings bytewise).
Ord ==
  [ch \in {".", "B", "a", "b", "c", "f", "i", "n", "t", "x"} |->
     CASE ch = "." -> 46  [] ch = "B" -> 66  [] ch = "a" -> 97
       [] ch = "b" -> 98  [] ch = "c" -> 99  [] ch = "f" -> 102
       [] ch = "i" -> 105 [] ch = "n" -> 110 [] ch = "t" -> 116
       [] ch = "x" -> 120]

\* s < t for Go strings.
Less(s, t) ==
  \E i \in 1..(Len(t)) :
    /\ \A j \in 1..(i - 1) : j <= Len(s) /\ s[j] = t[j]
    /\ (i > Len(s) \/ (i <= Len(s) /\ Ord[s[i]] < Ord[t[i]]))

\* filepath.Ext: the suffix beginning at the last dot.
Ext(name) ==
  LET dots == {i \in 1..Len(name) : name[i] = "."}
  IN  IF dots = {} THEN <<>>
      ELSE SubSeq(name, CHOOSE i \in dots : \A j \in dots : j <= i, Len(name))

\* strings.TrimSuffix.
TrimSuffix(s, suffix) ==
  IF Len(suffix) <= Len(s) /\ SubSeq(s, Len(s) - Len(suffix) + 1, Len(s)) = suffix
  THEN SubSeq(s, 1, Len(s) - Len(suffix))
  ELSE s

\* The names of a set in ascending order, as filepath.Glob returns them.
RECURSIVE Ascending(_)
Ascending(names) ==
  IF names = {} THEN <<>>
  ELSE LET least == CHOOSE n \in names : \A o \in names \ {n} : Less(n, o)
       IN  <<least>> \o Ascending(names \ {least})

\* filepath.Glob(configDir/*<ext>).
Glob(files, ext) == Ascending({n \in files : Ext(n) = ext})

\* The catalog entry of a file: ParseConfigFile, then Name, Path, Exists and
\* IsActive as ScanForConfigs sets them.
ScanEntry(match, status) ==
  [Name |-> TrimSuffix(match, Ext(match)), Path |-> match, Exists |-> TRUE,
   IsActive |-> (status.IsRunning /\ status.ConfigFile = match)]

\* SortedByName leaving the list in the order of the appends.
SortedByName_Unsorted(list) == {list}

\* The outcomes of sort.Slice by Name (the sort is not stable): the orders of
\* the list in which no entry is before one of a lesser Name.
SortedByName(list) ==
  {l \in [1..Len(list) -> {list[i] : i \in 1..Len(list)}] :
     /\ \A x \in 1..Len(list) :
          Cardinality({i \in 1..Len(list) : l[i] = list[x]}) = 1
     /\ \A i, j \in 1..Len(list) : i < j => ~Less(l[j].Name, l[i].Name)}

\* The profile that servers are started with.
Served == <<"b", ".", "i", "n", "i">>

\* The loop of GetMariaDBStatus over AvailableConfigs: the Name of the first
\* entry whose Path is the running server's file.
CatalogNameOf(list, file) ==
  LET hits == {i \in 1..Len(list) : list[i].Path = file}
  IN  IF hits = {} THEN <<>>
      ELSE list[CHOOSE i \in hits : \A j \in hits : i <= j].Name

\* `AvailableConfigs = []MariaDBConfig{}` and the two Globs.
ScanBegin ==
  /\ scan.pc = "idle"
  /\ scan' = [scan EXCEPT !.pc = "append",
                          !.listed = (CatalogNameOf(scan.AvailableConfigs, Served) # <<>>),
                          !.AvailableConfigs = <<>>,
                          !.matches = Glob(scan.files, <<".", "i", "n", "i">>) \o
                                      Glob(scan.files, <<".", "c", "n", "f">>)]
  /\ UNCHANGED <<lifecycle, parse, lookup, tool, spawn, chain, start, readers, snap>>

\* One iteration of the loop over the matches.
ScanAppend ==
  /\ scan.pc = "append" /\ scan.matches # <<>>
  /\ scan' = [scan EXCEPT !.matches = Tail(@),
                          !.AvailableConfigs =
                             Append(@, ScanEntry(Head(scan.matches), scan.CurrentStatus))]
  /\ UNCHANGED <<lifecycle, parse, lookup, tool, spawn, chain, start, readers, snap>>

\* sort.Slice, and the return of ScanForConfigs.
ScanSort ==
  /\ scan.pc = "append" /\ scan.matches = <<>>
  /\ \E sorted \in SortedByName(scan.AvailableConfigs) :
       scan' = [scan EXCEPT !.pc = "idle", !.AvailableConfigs = sorted,
                            !.fresh = TRUE, !.atReturn = scan.running]
  /\ UNCHANGED <<lifecycle, parse, lookup, tool, spawn, chain, start, readers, snap>>

\* The user puts a file into the configuration directory, or removes one.
CreateFile(name) ==
  /\ scan.pc = "idle" /\ name \notin scan.files
  /\ scan' = [scan EXCEPT !.files = @ \cup {name}, !.fresh = FALSE]
  /\ UNCHANGED <<lifecycle, parse, lookup, tool, spawn, chain, start, readers, snap>>

DeleteFile(name) ==
  /\ scan.pc = "idle" /\ name \in scan.files
  /\ scan' = [scan EXCEPT !.files = @ \ {name}, !.fresh = FALSE]
  /\ UNCHANGED <<lifecycle, parse, lookup, tool, spawn, chain, start, readers, snap>>

\* A server is found running with --defaults-file=<Served> (started by
\* another process of the tool, by hand, or before this process began);
\* nothing in this process is told.
ServerAppears ==
  /\ scan.running = <<>> /\ Served \in scan.files
  /\ scan' = [scan EXCEPT !.running = Served]
  /\ UNCHANGED <<lifecycle, parse, lookup, tool, spawn, chain, start, readers, snap>>

\* The server stops (Stop, or on its own); CurrentStatus is not written.
ServerGone ==
  /\ scan.running # <<>>
  /\ scan' = [scan EXCEPT !.running = <<>>]
  /\ UNCHANGED <<lifecycle, parse, lookup, tool, spawn, chain, start, readers, snap>>

\* `core.CurrentStatus = core.GetMariaDBStatus()` of the refresh ticker (or
\* the end of a successful Start).
StatusTick ==
  /\ scan' = [scan EXCEPT !.CurrentStatus =
                 [IsRunning |-> scan.running # <<>>, ConfigFile |-> scan.running]]
  /\ scan' # scan
  /\ UNCHANGED <<lifecycle, parse, lookup, tool, spawn, chain, start, readers, snap>>

\* The lookup of GetMariaDBStatus on the ticker's goroutine, whatever
\* ScanForConfigs is doing.
StatusLookup ==
  /\ scan.running # <<>> /\ scan.seenAt = "never"
  /\ scan' = [scan EXCEPT !.seenName = CatalogNameOf(scan.AvailableConfigs, scan.running),
                          !.seenAt = scan.pc, !.seenListed = scan.listed,
                          !.seenFile = (Served \in scan.files)]
  /\ UNCHANGED <<lifecycle, parse, lookup, tool, spawn, chain, start, readers, snap>>

InitScan ==
  /\ LifecycleQuiet
  /\ parse = ParseIdle
  /\ lookup = LookupIdle
  /\ tool = ToolIdle
  /\ spawn = SpawnIdle
  /\ chain = ChainIdle
  /\ start = StartIdle
  /\ scan = ScanIdle
  /\ readers = ReadersIdle
  /\ snap = SnapIdle

NextScan ==
  \/ ScanBegin
  \/ ScanAppend
  \/ ScanSort
  \/ \E name \in FileNames : CreateFile(name)
  \/ \E name \in FileNames : DeleteFile(name)
  \/ ServerAppears
  \/ ServerGone
  \/ StatusTick
  \/ StatusLookup

SpecScan == InitScan /\ [][NextScan]_vars

\* ------------------------------------------- status queries side by side
\* The row that FindProcessWithCmdLine returns: the first row of the listing
\* (rows come in the order of the process ids) that contains the process
\* name.  The rows of the table are the server, started with
\* --defaults-file=b.ini, and the `mysqld --version` children of the queries.
FirstRow(table) == CHOOSE row \in table : \A o \in table : row.pid <= o.pid

\* status.IsRunning = IsMariaDBRunning(), and the early return.
QueryRunning(r) ==
  /\ readers.q[r].pc = "idle"
  /\ readers' = [readers EXCEPT !.q[r] =
                   IF readers.table = {} THEN [@ EXCEPT !.pc = "done"]
                   ELSE [@ EXCEPT !.pc = "find", !.status.IsRunning = TRUE]]
  /\ UNCHANGED <<lifecycle, parse, lookup, tool, spawn, chain, start, scan, snap>>

\* The second listing: the process id and the --defaults-file of the row.
QueryFind(r) ==
  /\ readers.q[r].pc = "find"
  /\ readers' = [readers EXCEPT !.q[r] =
                   IF readers.table = {} THEN [@ EXCEPT !.pc = "version"]
                   ELSE [@ EXCEPT !.pc = "version",
                                  !.status.ProcessID = FirstRow(readers.table).pid,
                                  !.status.ConfigFile =
                                     IF FirstRow(readers.table).cmd = "server"
                                     THEN "b.ini" ELSE ""]]
  /\ UNCHANGED <<lifecycle, parse, lookup, tool, spawn, chain, start, scan, snap>>

\* GetMariaDBVersion runs `mysqld --version`: a process of the server
\* executable with a process id the system picks.
QueryVersion(r) ==
  /\ readers.q[r].pc = "version"
  /\ \E pid \in (1..MaxPid) \ {row.pid : row \in readers.table} :
       readers' = [readers EXCEPT !.table = @ \cup {[pid |-> pid, cmd |-> "version"]},
                                  !.q[r].pc = "wait", !.q[r].helper = pid]
  /\ UNCHANGED <<lifecycle, parse, lookup, tool, spawn, chain, start, scan, snap>>

\* The child has printed the version and exited; the query returns.
QueryReturn(r) ==
  /\ readers.q[r].pc = "wait"
  /\ readers' = [readers EXCEPT !.table = {row \in @ : row.pid # readers.q[r].helper},
                                !.q[r].pc = "done"]
  /\ UNCHANGED <<lifecycle, parse, lookup, tool, spawn, chain, start, scan, snap>>

InitQueries ==
  /\ LifecycleQuiet
  /\ parse = ParseIdle
  /\ lookup = LookupIdle
  /\ tool = ToolIdle
  /\ spawn = SpawnIdle
  /\ chain = ChainIdle
  /\ start = StartIdle
  /\ scan = ScanIdle
  /\ \E table \in {{}} \cup {{[pid |-> pid, cmd |-> "server"]} : pid \in 1..MaxPid} :
       readers = [ReadersIdle EXCEPT !.table = table]
  /\ snap = SnapIdle

NextQueries ==
  \/ \E r \in Queriers : QueryRunning(r)
  \/ \E r \in Queriers : QueryFind(r)
  \/ \E r \in Queriers : QueryVersion(r)
  \/ \E r \in Queriers : QueryReturn(r)

SpecQueries == InitQueries /\ [][NextQueries]_vars

\* ------------------------------------------------ core.CurrentStatus, raced
\* `core.CurrentStatus = core.GetMariaDBStatus()`: the query has returned
\* value and the assignment begins.  CurrentStatus is a plain package
\* variable of a struct type; the assignment is a copy of its words and no
\* lock is held.
AssignBegin(g, value) ==
  /\ snap.w[g].left = {}
  /\ snap' = [snap EXCEPT !.w[g] = [value |-> value, left |-> StatusFields]]
  /\ UNCHANGED <<lifecycle, parse, lookup, tool, spawn, chain, start, scan, readers>>

\* One field of the copy is stored.
AssignStore(g, f) ==
  /\ f \in snap.w[g].left
  /\ snap' = [snap EXCEPT !.CurrentStatus[f] = snap.w[g].value[f],
                          !.w[g].left = @ \ {f}]
  /\ UNCHANGED <<lifecycle, parse, lookup, tool, spawn, chain, start, scan, readers>>

\* A reader (the config card, the tray menu, ScanForConfigs) loads one field
\* of CurrentStatus.
ReadField(f) ==
  /\ f \notin snap.read
  /\ snap' = [snap EXCEPT !.read = @ \cup {f}, !.seen[f] = snap.CurrentStatus[f]]
  /\ UNCHANGED <<lifecycle, parse, lookup, tool, spawn, chain, start, scan, readers>>

InitSnap ==
  /\ LifecycleQuiet
  /\ parse = ParseIdle
  /\ lookup = LookupIdle
  /\ tool = ToolIdle
  /\ spawn = SpawnIdle
  /\ chain = ChainIdle
  /\ start = StartIdle
  /\ scan = ScanIdle
  /\ readers = ReadersIdle
  /\ snap = SnapIdle

NextSnap ==
  \/ \E g \in Writers, value \in StatusResults : AssignBegin(g, value)
  \/ \E g \in Writers, f \in StatusFields : AssignStore(g, f)
  \/ \E f \in StatusFields : ReadField(f)

SpecSnap == InitSnap /\ [][NextSnap]_vars

\* ------------------------------------------------------- one call at a time
\* The command line interface: one process, one command, one goroutine.  The
\* catalog holds the two profiles; the name on the command line is looked up
\* in it before anything else.

\* MariaDBConfig.Name of the catalog's profiles.
ProfileName ==
  [p \in Profiles |-> IF p = "dev" THEN <<"d", "e", "v">> ELSE <<"p", "r", "o", "d">>]

\* The names a user may type: a profile's name, one in another case, a
\* prefix of one, and nothing.
Requested == {<<"p", "r", "o", "d">>, <<"P", "r", "o", "d">>, <<"d", "e", "v">>, <<"p", "r", "o">>, <<>>}

\* strings.EqualFold, on the letters that occur in Requested.
EqualFold(s, t) == ToLower(s) = ToLower(t)

\* The loop of CLI.Switch over core.AvailableConfigs.
targetConfig(configName) ==
  {p \in Profiles : EqualFold(ProfileName[p], configName)}

\* CLISwitch stopping the running server before it looks the name up.
CLISwitch_StopFirst(c, configName) ==
  IF targetConfig(configName) = {} /\ ~IsMariaDBRunning
  THEN /\ call[c].pc = "idle"
       /\ call' = [call EXCEPT ![c] = Done(Begin("Switch", "none"), "NotFound")]
       /\ UNCHANGED <<procs, nextPid, dataDir, LastUsedConfig, CurrentStatus,
                      SavedCredentials, env>>
  ELSE Switch(c, IF targetConfig(configName) = {} THEN "none"
                 ELSE CHOOSE p \in targetConfig(configName) : TRUE)

\* CLI.Switch from the command line: the lookup by name, and the error
\* "configuration '<name>' not found" when no profile matches.
CLISwitch(c, configName) ==
  IF targetConfig(configName) = {}
  THEN /\ call[c].pc = "idle"
       /\ call' = [call EXCEPT ![c] = Done(Begin("Switch", "none"), "NotFound")]
       /\ UNCHANGED <<procs, nextPid, dataDir, LastUsedConfig, CurrentStatus,
                      SavedCredentials, env>>
  ELSE Switch(c, CHOOSE p \in targetConfig(configName) : TRUE)

\* The steps of a call in flight; each returns when the external calls it
\* makes return.
CallStep(c) ==
  \/ StartEnter(c)
  \/ StartPrepare(c)
  \/ StartRecheck(c)
  \/ StartSpawn(c)
  \/ StartPoll(c)
  \/ StartFinal(c)
  \/ StopShutdown(c)
  \/ StopGrace(c)

\* The process that runs the command.
cli == "a"

NextCLI ==
  \/ \E cfg \in Profiles : Start(cli, cfg)
  \/ CLIStop(cli)
  \/ \E configName \in Requested : CLISwitch(cli, configName)
  \/ CallStep(cli)
  \/ \E p \in procs : ProcReady(p)
  \/ \E p \in procs : ProcExit(p)
  \/ \E port \in Ports : ForeignBind(port)
  \/ \E port \in Ports : ForeignRelease(port)

SpecCLI == Init /\ [][NextCLI]_vars /\ WF_vars(CallStep(cli))


\* ================================================================ claims
StartRelated == {"mkdir", "init", "spawn", "lastused", "status"}

\* C1 - Start precondition: when the status check reports the server running
\* at the moment StartMariaDBWithConfig is called, the call returns the
\* AlreadyRunning error at once and spawns no process.
C1_StartPrecondition ==
  \A c \in Callers :
    call[c].seen \in {"running", "rival"} =>
      /\ call[c].pc = "done"
      /\ call[c].result = "AlreadyRunning"
      /\ "spawn" \notin call[c].effects

C1_Witness ==
  \E c \in Callers :
    /\ call[c].op = "Start" /\ call[c].pc = "done"
    /\ call[c].seen = "running" /\ call[c].result = "AlreadyRunning"

\* C2 - Single instance: at most one server process is starting or running
\* at any time, whatever the interleaving of the callers' Start requests.
C2_SingleInstance ==
  Cardinality({p \in procs : p.state \in {"starting", "listening"}}) <= 1

\* C3 - Transition mutual exclusion: while one Start, Stop or Switch is in
\* flight no other one executes; a request arriving then is refused at once
\* (OperationInProgress) and so is never in flight itself.
C3_TransitionExclusion ==
  \A c, d \in Callers : c # d => ~(InFlight(c) /\ InFlight(d))

\* C4 - Stop idempotence: a Stop requested (from the CLI or the tray) while
\* no server is running returns success and does nothing: no shutdown
\* command, no credentials prompt or save, no wait.
C4_StopIdempotent ==
  \A c \in Callers :
    (call[c].op \in {"Stop", "TrayStop"} /\ call[c].reqCfg = "none") =>
      /\ call[c].effects = {}
      /\ call[c].pc = "done" => call[c].result = "OK"

\* C5 - Stop verification: a Stop that issued the shutdown command returns
\* success only if the status check after the grace period reports the
\* server not running, and StopTimeout if it still reports it running.
C5_StopVerified ==
  \A c \in Callers :
    (call[c].op \in {"Stop", "TrayStop"} /\ call[c].pc = "done"
       /\ call[c].afterStop # "none") =>
      /\ call[c].result = "OK" => call[c].afterStop = "stopped"
      /\ call[c].afterStop = "running" => call[c].result = "StopTimeout"

\* C6 - Start confirmation: a Start that spawned returns success only if
\* some poll saw the process running and the port accepting connections;
\* otherwise it fails with StartTimeout.
C6_StartConfirmed ==
  \A c \in Callers :
    (call[c].pc = "done" /\ "spawn" \in call[c].effects) =>
      /\ call[c].result = "OK" => call[c].sawBoth
      /\ ~call[c].sawBoth => call[c].result = "StartTimeout"

\* C7 - Initialize before spawn: a Start that found the profile's data
\* directory empty or absent initializes it before it spawns, and a Start
\* that failed with DataDirInitFailed has not spawned.
C7_InitBeforeSpawn ==
  \A c \in Callers :
    /\ (call[c].seen \in {"absent", "empty"} /\ "spawn" \in call[c].effects)
         => "init" \in call[c].effects
    /\ call[c].result = "DataDirInitFailed" => "spawn" \notin call[c].effects

\* C8 (as stated) - Port conflict: Start of a profile while another
\* profile's server is confirmed running on the same port fails with
\* PortOccupied.
C8_PortConflictOccupied ==
  \A c \in Callers :
    (call[c].seen = "rival" /\ call[c].pc = "done") =>
      call[c].result = "PortOccupied"

\* C8 (amended) - Port conflict: Start of a profile while another profile's
\* server is confirmed running on the same port fails with AlreadyRunning
\* and spawns no process.
C8_PortConflictRefused ==
  \A c \in Callers :
    call[c].seen = "rival" =>
      /\ call[c].pc = "done"
      /\ call[c].result = "AlreadyRunning"
      /\ "spawn" \notin call[c].effects

C8_Witness ==
  \E c \in Callers :
    /\ call[c].op = "Start" /\ call[c].cfg = "dev" /\ call[c].pc = "done"
    /\ call[c].seen = "rival" /\ call[c].reqCfg = "prod"
    /\ PortOf["dev"] = PortOf["prod"]

\* C9 - Side-effect-free precondition failures: a Start that returned
\* AlreadyRunning, ConfigNotFound or PortOccupied has created or initialized
\* no data directory, spawned no process, and left the last used profile and
\* the last known status alone.
C9_PreconditionFailuresPure ==
  \A c \in Callers :
    (call[c].pc = "done" /\ call[c].seen # "none"
       /\ call[c].result \in {"AlreadyRunning", "ConfigNotFound", "PortOccupied"}) =>
      call[c].effects \cap StartRelated = {}

\* C10 - Switch to the running profile is a no-op: it returns success,
\* issues no shutdown command and spawns no process.
C10_SwitchSameProfileNoop ==
  \A c \in Callers :
    (call[c].op = "Switch" /\ call[c].reqCfg = call[c].cfg) =>
      /\ call[c].effects \cap {"shutdownCmd", "spawn"} = {}
      /\ call[c].pc = "done" => call[c].result = "OK"

\* C11 - Switch aborts on the first failing step without rollback: when the
\* Stop step fails the Start step is never entered and Switch returns the
\* Stop error; when Stop succeeded and Start fails Switch returns the Start
\* error without recording the profile as last used; and a Switch that has
\* returned takes no further step (nothing is started again).
C11_SwitchAborts ==
  /\ [](\A c \in Callers :
          call[c].op = "Switch" =>
            /\ ("shutdownCmd" \in call[c].effects /\ call[c].pc \notin {"grace", "done"})
                 => "wait" \in call[c].effects
            /\ (call[c].pc = "done" /\ "shutdownCmd" \in call[c].effects
                  /\ "wait" \notin call[c].effects) =>
                 /\ call[c].result = "ShutdownFailed"
                 /\ call[c].seen = "none"
                 /\ call[c].effects \cap StartRelated = {}
            /\ (call[c].pc = "done" /\ call[c].seen # "none" /\ call[c].result # "OK") =>
                 /\ call[c].result \in {"AlreadyRunning", "ConfigNotFound",
                                        "PortOccupied", "DataDirInitFailed",
                                        "StartTimeout"}
                 /\ "lastused" \notin call[c].effects)
  /\ [][\A c \in Callers :
          (call[c].op = "Switch" /\ call[c].pc = "done") => call'[c] = call[c]]_vars

C11_Witness ==
  \E c, d \in Callers :
    /\ call[c].op = "Switch" /\ call[c].pc = "done"
    /\ call[c].result = "ShutdownFailed" /\ "shutdownCmd" \in call[c].effects
    /\ call[d].op = "Switch" /\ call[d].pc = "done"
    /\ "wait" \in call[d].effects /\ call[d].result = "AlreadyRunning"

\* C12 - Rejected credentials on Stop: a Stop whose shutdown command the
\* server refused with "Access denied" returns an error of the kind
\* CredentialRejected.
C12_CredentialRejected ==
  \A c \in Callers :
    (call[c].denied /\ call[c].pc = "done") =>
      call[c].result = "CredentialRejected"

C14_NotRunningAllUnset ==
  (query.pc = "done" /\ ~query.status.IsRunning) => query.status = MariaDBStatus

C14_Witness ==
  /\ query.pc = "done" /\ ~query.status.IsRunning
  /\ \E p \in procs : p.cfg \in Profiles

\* C20 - Process id if and only if running: the status a query returns has a
\* non-zero process id exactly when it reports the server running, also when
\* the process exits or appears between the two listings of the query.
C20_PidIffRunning ==
  query.pc = "done" => (query.status.ProcessID # 0 <=> query.status.IsRunning)

\* The section that line k of text lies in is [mysqld]: the last line before
\* k that begins with '[' is the header [mysqld], in any letter case.
Header(raw) == HasPrefix(TrimSpace(raw), <<"[">>)

InMysqld(text, k) ==
  \E h \in 1..(k - 1) :
    /\ Header(text[h])
    /\ ToLower(TrimSpace(text[h])) = <<"[", "m", "y", "s", "q", "l", "d", "]">>
    /\ \A j \in (h + 1)..(k - 1) : ~Header(text[j])

\* Line k of text is a key=value line for one of the keys.
KeyLine(raw, keys) ==
  LET line == TrimSpace(raw) IN
  /\ line # <<>> /\ line[1] \notin {"#", ";", "["}
  /\ ContainsEq(line)
  /\ TrimSpace(ToLower(SplitN2(line)[1])) \in keys

\* The text without its key=value lines that lie outside a [mysqld] section.
InsideOnly(text) ==
  LET F[n \in 0..Len(text)] ==
        IF n = 0 THEN <<>>
        ELSE IF ~Header(text[n]) /\ ContainsEq(text[n]) /\ ~InMysqld(text, n)
             THEN F[n - 1]
             ELSE Append(F[n - 1], text[n])
  IN  F[Len(text)]

C16_DefaultPort ==
  (parse.pc = "done" /\ parse.readable
     /\ ~\E k \in 1..Len(parse.text) :
           InMysqld(parse.text, k) /\ KeyLine(parse.text[k], {<<"p", "o", "r", "t">>})) =>
    parse.config.Port = <<"3", "3", "0", "6">>

C16_Witness ==
  /\ parse.pc = "done" /\ parse.readable
  /\ Len(parse.text) = 2
  /\ parse.text[1] = <<"[", "m", "y", "s", "q", "l", "d", "]">>
  /\ parse.text[2] = <<"d", "a", "t", "a", "d", "i", "r", "=", "/", "d">>
  /\ parse.config.Port = <<"3", "3", "0", "6">>
  /\ parse.config.DataDir = <<"/", "d">>

\* C17 - Canonicalization idempotence of the catalog lookup: for every path,
\* the lookup of the cleaned path finds what the lookup of the path finds;
\* a path that leads to a cataloged file through '.', '..' or doubled
\* separators finds that profile in both forms.
C17_CleanLookupSame ==
  lookup.pc = "done" => FindConfigByPath(Clean(lookup.path)) = lookup.found

C17_Witness ==
  /\ lookup.pc = "done"
  /\ lookup.path = [abs |-> TRUE, segs |-> <<"x", "..", "", "conf", "dev.ini">>]
  /\ lookup.found = "dev"

\* C18 - Hung external tools cannot hang the supervisor: a Start, Stop or
\* status query that waits for an external program returns in the end, also
\* when the program never exits.
C18_EventuallyReturns ==
  (tool.pc = "waiting" /\ tool.op \in {"Start", "Stop", "Status"})
    ~> (tool.pc = "done")

\* C19 - Simultaneous profiles on different ports: a Start of a profile made
\* while a server of another profile is running, whose port differs from the
\* port of the profile started, succeeds.
C19_DifferentPortsStart ==
  \A c \in Callers :
    (call[c].op = "Start" /\ call[c].pc = "done" /\ call[c].seen = "running"
       /\ call[c].reqCfg \in Profiles \ {call[c].cfg}
       /\ PortOf[call[c].reqCfg] # PortOf[call[c].cfg]) =>
      call[c].result = "OK"

\* C21 - Start/Resolve round trip: the configuration file that a status
\* query reads off the command line of a server is exactly the path that
\* Start passed to the spawn (so that the profile is matched in the catalog
\* and its name, port and data directory are reported), also for a path
\* that contains white space.
C21_RoundTrip ==
  spawn.pc = "done" => spawn.configFile = spawn.path

\* C22 - Port fallback whenever there is no catalog match: a status query
\* that finds the process, whose command line names no configuration file
\* or one that is not in the catalog, returns a non-empty port.
C22_PortFallback ==
  (query.pc = "done" /\ query.status.ProcessID # 0
     /\ query.status.ConfigName = "") =>
    query.status.Port # ""

\* The process id that owns a listening row: the digits before the '/'.
RowOwner(row) ==
  LET slash == IndexAny(row.processInfo, {"/"})
  IN  IF slash = 0 THEN row.processInfo
      ELSE SubSeq(row.processInfo, 1, slash - 1)

\* The port of the first listening row owned by the process id.
OwnedPort(rows, pid) ==
  LET hits == {i \in 1..Len(rows) : RowOwner(rows[i]) = pid}
  IN  IF hits = {} THEN ""
      ELSE rows[CHOOSE i \in hits : \A j \in hits : i <= j].port

\* C23 - Port-resolution chain order: the port returned is the value of the
\* first method, in the order command line, administrative query, listening
\* row owned by the process id, first accepting port of 3306..3310, that
\* gives a non-empty value, and "3306" when none does; no method after that
\* one is consulted.
C23_ChainOrder ==
  chain.pc = "done" =>
    LET a == chain.cmdPort
        b == chain.dbPort
        c == OwnedPort(chain.netstat, chain.pid)
        d == firstListening(chain.accepting)
    IN  /\ chain.port = (IF a # "" THEN a ELSE IF b # "" THEN b
                          ELSE IF c # "" THEN c ELSE IF d # "" THEN d ELSE "3306")
        /\ Len(chain.consulted) = (IF a # "" THEN 1 ELSE IF b # "" THEN 2
                                   ELSE IF c # "" THEN 3 ELSE 4)

\* C24 - Last-used-config frame: the last used profile changes only in the
\* step in which a Start (alone or as the second half of a Switch) returns
\* success, and then to the profile of that Start; a failing Start, a Stop
\* and every other step leave it as it was.
C24_LastUsedFrame ==
  [][LastUsedConfig' # LastUsedConfig =>
       \E c \in Callers : /\ call[c].pc = "final"
                          /\ call'[c].pc = "done" /\ call'[c].result = "OK"
                          /\ LastUsedConfig' = call[c].cfg]_vars

\* A Start of "dev" succeeded and was recorded, and another request (a Start
\* that failed after its spawn, or a Stop) has returned since without
\* touching the record.
C24_Witness ==
  \E c, d \in Callers :
    /\ call[c].pc = "done" /\ call[c].result = "OK" /\ call[c].cfg = "dev"
    /\ "lastused" \in call[c].effects
    /\ LastUsedConfig = "dev"
    /\ call[d].pc = "done" /\ call[d].cfg = "prod"
    /\ call[d].result = "StartTimeout"

\* C25 - Status refresh: when a Start, Stop or Switch that changed the
\* process state completes, the last known status equals a fresh status
\* query; in particular, once a Stop has returned success with no server
\* left (and no other request was ever made), the last known status reports
\* not running.
C25_StatusRefreshed ==
  \A c \in Callers :
    (/\ call[c].pc = "done" /\ call[c].op \in {"Stop", "TrayStop"}
     /\ call[c].result = "OK" /\ call[c].afterStop = "stopped"
     /\ \A d \in Callers \ {c} : call[d].pc = "idle")
    => /\ ~CurrentStatus.IsRunning
       /\ (~IsMariaDBRunning => CurrentStatus = GetMariaDBStatus)

C27_BinaryFallback ==
  (start.pc = "done" /\ start.result = "BinaryNotFound")
    => (~start.bin.primary /\ ~start.bin.alternate /\ ~start.bin.which)

\* The checks of a Start in the order claimed, and the error of each.
CheckOrder == <<"running", "binary", "config", "datadir", "recheck", "port", "spawn">>

CheckError ==
  <<"AlreadyRunning", "BinaryNotFound", "ConfigNotFound", "DataDirInitFailed",
    "AlreadyRunning", "PortOccupied", "Spawned">>

\* Which checks fail in the environment of the call (the last entry stands
\* for the spawn, which is no check).
CheckFails ==
  <<start.running1,
    start.bin.dir # "present"
      \/ (~start.bin.primary /\ ~start.bin.alternate /\ ~start.bin.which),
    ~start.cfgExists,
    (start.dir = "absent" /\ ~start.mkdirOK)
      \/ (start.isEmpty /\ ~start.ok1 /\ ~start.ok2),
    start.running2,
    ~start.portFree,
    TRUE>>

\* C28 - Start check order: a finished call has made the checks not-running,
\* executable resolution, profile file, data directory preparation,
\* not-running again, port free, in this order and up to the first one that
\* fails; its error is the error of that check, and nothing after it (no
\* data directory change before the profile check, no spawn) was done.
C28_CheckOrder ==
  start.pc = "done" =>
    LET k == CHOOSE i \in 1..7 : CheckFails[i] /\ \A j \in 1..(i - 1) : ~CheckFails[j]
    IN  /\ start.steps = SubSeq(CheckOrder, 1, k)
        /\ start.result = CheckError[k]
        /\ (("spawn" \in start.effects) <=> (k = 7))
        /\ ((k < 4) => start.effects = {})

\* The re-check refused a call that had passed the first running check and
\* created the data directory.
C28_Witness ==
  /\ start.pc = "done" /\ start.result = "AlreadyRunning"
  /\ Len(start.steps) = 5 /\ "mkdir" \in start.effects

\* C29 - Existing data is never re-initialized: a call that reaches the data
\* directory step with a directory that has entries invokes no
\* initialization method and runs ValidateDataDirectory; whatever that
\* answers, the call goes on to the re-check and, when that and the port
\* probe pass, to the spawn.
C29_NoReinit ==
  (start.pc = "done" /\ Len(start.steps) >= 4
   /\ start.dir \in {"incomplete", "populated"})
    => /\ "init" \notin start.effects
       /\ "validate" \in start.effects
       /\ start.result # "DataDirInitFailed"
       /\ Len(start.steps) >= 5
       /\ ((~start.running2 /\ start.portFree) => "spawn" \in start.effects)

\* A call spawned the server on a directory that ValidateDataDirectory
\* rejects.
C29_Witness ==
  /\ start.pc = "done" /\ start.dir = "incomplete"
  /\ ~ValidateDataDirectory(start.dir)
  /\ "validate" \in start.effects /\ "spawn" \in start.effects

\* C30 - IsDirEmpty correctness: for a directory that exists and can be
\* read, IsDirEmpty returns no error, and true exactly when the directory
\* has no entries.
C30_IsDirEmptyCorrect ==
  start.examined # "unset" =>
    /\ start.dirErr = "nil"
    /\ start.isEmpty = (start.examined = "empty")

\* The files of the configuration directory with a recognized extension.
Recognized(files) == {n \in files : Ext(n) \in {<<".", "i", "n", "i">>, <<".", "c", "n", "f">>}}

\* list is a catalog of files: one entry for each recognized file, none for
\* anything else, in ascending order of Name.
CatalogOf(list, files) ==
  /\ \A n \in Recognized(files) :
       Cardinality({i \in 1..Len(list) : list[i].Path = n}) = 1
  /\ \A i \in 1..Len(list) : list[i].Path \in Recognized(files)
  /\ \A i, j \in 1..Len(list) : i < j => ~Less(list[j].Name, list[i].Name)

\* C31 - Catalog after Scan: once a Scan has completed after the last
\* creation or deletion of a file, the catalog holds exactly one profile for
\* each file of the configuration directory with the extension .ini or
\* .cnf, none for a deleted file, and is in ascending bytewise order of name.
C31_CatalogAfterScan ==
  (scan.pc = "idle" /\ scan.fresh) => CatalogOf(scan.AvailableConfigs, scan.files)

\* A rescan of a directory with two profiles that differ in case only, two
\* of the same name and a file that is no profile.
C31_Witness ==
  /\ scan.pc = "idle" /\ scan.fresh
  /\ scan.files = FileNames
  /\ Len(scan.AvailableConfigs) = 4

\* C32 - Wholesale catalog replacement: a status query that runs while a
\* Scan is in progress finds the catalog of before the Scan or the one of
\* after it; so when the running server's profile was in the catalog before
\* the Scan and its file is still there, the query resolves its name.
C32_WholesaleReplacement ==
  (scan.seenAt = "append" /\ scan.seenListed /\ scan.seenFile)
    => scan.seenName # <<>>

\* C33 - isActive correctness: in the catalog a Scan returns, a profile is
\* active if and only if a server was running at that moment with that
\* profile's file as its configuration file; so at most one profile is
\* active, and none when nothing is running.
C33_IsActiveCorrect ==
  scan.pc = "idle" =>
    \A i \in 1..Len(scan.AvailableConfigs) :
      scan.AvailableConfigs[i].IsActive
        <=> (scan.atReturn # <<>> /\ scan.atReturn = scan.AvailableConfigs[i].Path)

\* C34 - Status queries are read-only: a status query changes neither the
\* settings, the saved credentials, the last known status nor the server
\* process, and status queries that run side by side do not change one
\* another's result: each returns the status of the server (its process id
\* and configuration file) when one is running, and not running otherwise.
C34_QueriesReadOnly ==
  /\ LifecycleQuiet
  /\ \A r \in Queriers :
       readers.q[r].pc = "done" =>
         LET servers == {row \in readers.table : row.cmd = "server"}
         IN  IF servers = {} THEN ~readers.q[r].status.IsRunning
             ELSE \A row \in servers :
                    readers.q[r].status =
                      [IsRunning |-> TRUE, ProcessID |-> row.pid, ConfigFile |-> "b.ini"]

\* C35 - Atomic status snapshot: what a reader has read of the last known
\* status is the result of one single status query, never fields of two.
C35_AtomicSnapshot ==
  snap.read = StatusFields => snap.seen \in StatusResults

\* C36 - Unopenable profile file: parsing a path whose file cannot be opened,
\* because it is missing or because it cannot be read, returns a profile
\* with exists = false and with port, data directory and description empty
\* (no default port).
C36_UnopenableEmpty ==
  (parse.pc = "done" /\ ~parse.readable) =>
    /\ ~parse.config.Exists
    /\ parse.config.Port = <<>>
    /\ parse.config.DataDir = <<>>
    /\ parse.config.Description = <<>>

Rank(pc) ==
  CASE pc = "idle" -> 0 [] pc = "shutdown" -> 1 [] pc = "grace" -> 2
    [] pc = "enter" -> 3 [] pc = "prepare" -> 4 [] pc = "recheck" -> 5
    [] pc = "spawn" -> 6 [] pc = "poll" -> 7 [] pc = "final" -> 8
    [] pc = "done" -> 9

\* C38 - Bounded retry: the verification loop of a Start has made fewer than
\* maxRetries polls whenever it is about to poll; no step of a call goes back
\* to an earlier position, so that the step that prepares the data directory
\* (the first initialization method and its one fallback) is taken at most
\* once, and the shutdown command of a Stop is issued at most once; and,
\* each step returning, every Start, Stop and Switch ends with success or an
\* error.
C38_BoundedRetry ==
  /\ [](\A c \in Callers : call[c].pc = "poll" => call[c].i < maxRetries)
  /\ [][\A c \in Callers :
          call'[c] # call[c] =>
            /\ \/ Rank(call'[c].pc) > Rank(call[c].pc)
               \/ /\ call[c].pc = "poll" /\ call'[c].pc = "poll"
                  /\ call'[c].i = call[c].i + 1
            /\ "shutdownCmd" \in call'[c].effects \ call[c].effects
                 => call[c].pc = "shutdown"]_vars
  /\ (call[cli].pc # "idle") ~> (call[cli].pc = "done" /\ call[cli].result # "none")

\* A Switch has issued the shutdown command, started the other profile and
\* given up after the last poll.
C38_Witness ==
  /\ call[cli].op = "Switch" /\ call[cli].pc = "done"
  /\ call[cli].result = "StartTimeout"
  /\ {"shutdownCmd", "spawn"} \subseteq call[cli].effects
  /\ ~call[cli].sawBoth

\* C39 - Switch to an unknown profile: when the name matches no profile of
\* the catalog, Switch returns the not-found error in one step that issues no
\* shutdown command, spawns nothing and leaves the process table, the running
\* server included, and every record as they were.
C39_SwitchUnknown ==
  [][\A configName \in Requested :
       (targetConfig(configName) = {} /\ CLISwitch(cli, configName))
         => /\ call'[cli].pc = "done" /\ call'[cli].result = "NotFound"
            /\ call'[cli].effects = {}
            /\ UNCHANGED <<procs, nextPid, dataDir, LastUsedConfig,
                           CurrentStatus, SavedCredentials>>]_vars

\* A Switch to an unknown name has been refused while the "prod" server
\* runs.
C39_Witness ==
  /\ call[cli].op = "Switch" /\ call[cli].result = "NotFound"
  /\ call[cli].reqPid = 1
  /\ [pid |-> 1, cfg |-> "prod", state |-> "listening"] \in procs

====
